---- MODULE Spec2Model ----
(***************************************************************************)
(* The archive-backed sample store of sdoml-lite (src/dataset.py):         *)
(* TarRandomAccess (member index over *.tar containers, persisted in the   *)
(* file tar_files_index), WebDataset (sample index: prefix -> postfixes)   *)
(* and SDOMLlite (temporal index, persisted in files dates_index_...).     *)
(*                                                                         *)
(* Representation.                                                         *)
(*  - A datetime is the number of seconds since 2022-11-01T00:00:00.       *)
(*  - A string is kept as the sequence of its fields:                      *)
(*      an ISO string    "2022-11-01T00:15[:00]" is <<day, HH, MM[, SS]>>, *)
(*      a prefix         "2022/11/01/0015"       is <<day, HH, MM>>,       *)
(*      a channel name   "hmi_m"                 is <<"hmi", "m">>         *)
(*                       (its pieces between '_'),                         *)
(*      a member name    "<prefix>.hmi_m.npy"    is <<prefix, chan, ext>>  *)
(*                       (its pieces between '.').                         *)
(*  - A container (tar file) is the sequence of its members, a member      *)
(*    being [name, data]; data is the array np.load decodes: [shape, val]. *)
(***************************************************************************)
EXTENDS Integers, Sequences, FiniteSets, TLC

VARIABLES
    tars,             \* data_dir/*.tar            : shard number -> container, or NoFile
    tar_files_index,  \* data_dir/tar_files_index  : NoFile or the pickled member index
    dates_index,      \* data_dir/dates_index_*    : cache name -> pickled date list
    index_origin,     \* history: the directory listing tar_files_index was built from
    dates_origin,     \* history: cache name -> configuration and member index it was computed from
    truncated,        \* the cache files that hold a cut-off pickle (a writer died)
    store,            \* the SDOMLlite object of the latest construction
    result,           \* what the latest call (constructor, len, get) gave back
    dir_changes,      \* how many times the directory was changed from outside
    readers,          \* the get() calls in progress, one per concurrent reader
    handles,          \* the container handles open for extraction
    web,              \* a WebDataset made by the caller, and what its latest call gave back
    download          \* the file list of a download and what each node's run fetched

vars == <<tars, tar_files_index, dates_index, index_origin, dates_origin,
          truncated, store, result, dir_changes, readers, handles, web, download>>

\* what the calls of one process, made one after the other, work on
shared == <<tars, tar_files_index, dates_index, index_origin, dates_origin,
            truncated, store, result, dir_changes>>

\* what concurrent get() calls work with
calls == <<readers, handles>>

\* what a WebDataset used without SDOMLlite and the download scripts work on
tools == <<web, download>>

----------------------------------------------------------------------------
(* Bounds of the model *)

MaxTars == 2
MaxDirChanges == 1
MaxDateCaches == 2
MaxOrdinal == 2
MaxReaders == 2
MaxNodes == 3
MaxSteps == 5

(* Program constant *)

delta_minutes == 15

----------------------------------------------------------------------------
(* datetime <-> string conversions *)

\* datetime.isoformat(): always prints the seconds
isoformat(d) ==
    <<d \div 86400, (d % 86400) \div 3600, (d % 3600) \div 60, d % 60>>

\* datetime.fromisoformat(): the seconds are optional
fromisoformat(s) ==
    s[1] * 86400 + s[2] * 3600 + s[3] * 60 + (IF Len(s) >= 4 THEN s[4] ELSE 0)

\* strptime(prefix, '%Y/%m/%d/%H%M') succeeds
Parsable(prefix) ==
    /\ Len(prefix) = 3
    /\ prefix[2] \in 0..23
    /\ prefix[3] \in 0..59

prefix_to_date(prefix) ==
    prefix[1] * 86400 + prefix[2] * 3600 + prefix[3] * 60

\* date_to_prefix formatting with '%Y/%m/%d/%H%S'
date_to_prefix_seconds(date) ==
    <<date \div 86400, (date % 86400) \div 3600, date % 60>>

\* strftime('%Y/%m/%d/%H%M') drops the seconds
date_to_prefix(date) ==
    <<date \div 86400, (date % 86400) \div 3600, (date % 3600) \div 60>>

\* @lru_cache: a call with a key already in the memo returns the remembered value,
\* any other call computes the value and remembers it
lru_cache(memo, key, computed) ==
    IF key \in DOMAIN memo
    THEN [value |-> memo[key], memo |-> memo]
    ELSE [value |-> computed, memo |-> (key :> computed) @@ memo]

----------------------------------------------------------------------------
(* class TarRandomAccess *)

NoFile == [exists |-> FALSE, members |-> <<>>]

TarFile(members) == [exists |-> TRUE, members |-> members]

NoCache == [exists |-> FALSE, index |-> <<>>]

\* sorted(...) of a set of shard numbers
RECURSIVE sorted(_)
sorted(S) ==
    IF S = {} THEN <<>>
    ELSE LET lo == CHOOSE x \in S : \A y \in S : x <= y
         IN  <<lo>> \o sorted(S \ {lo})

\* sorted(glob(os.path.join(data_dir, '*.tar')))
tar_files(dir) == sorted({p \in DOMAIN dir : dir[p].exists})

\* self.index[info.name] = (tar.name, info) on an insertion-ordered dict:
\* a name already present keeps its place and takes the new value
DictSet(index, name, tar_file, info) ==
    IF \E i \in 1..Len(index) : index[i].name = name
    THEN [i \in 1..Len(index) |->
            IF index[i].name = name
            THEN [name |-> name, tar |-> tar_file, info |-> info]
            ELSE index[i]]
    ELSE Append(index, [name |-> name, tar |-> tar_file, info |-> info])

\* for info in tar.getmembers(): self.index[info.name] = (tar.name, info)
RECURSIVE ScanMembers(_, _, _, _)
ScanMembers(index, tar_file, members, pos) ==
    IF pos > Len(members) THEN index
    ELSE ScanMembers(DictSet(index, members[pos].name, tar_file, pos),
                     tar_file, members, pos + 1)

\* for tar_file in tar_files: with tarfile.open(tar_file) as tar: ...
RECURSIVE ScanTars(_, _, _)
ScanTars(index, dir, files) ==
    IF files = <<>> THEN index
    ELSE ScanTars(ScanMembers(index, Head(files), dir[Head(files)].members, 1),
                  dir, Tail(files))

\* TarRandomAccess_init dumping the index inside the loop, after the first container
TarRandomAccess_init_early_dump(dir, cache) ==
    IF Len(tar_files(dir)) = 0
    THEN [raised |-> "ValueError", index |-> <<>>, loaded |-> FALSE, cache |-> cache]
    ELSE IF cache.exists
    THEN [raised |-> "", index |-> cache.index, loaded |-> TRUE, cache |-> cache]
    ELSE [raised |-> "", index |-> ScanTars(<<>>, dir, tar_files(dir)), loaded |-> FALSE,
          cache |-> [exists |-> TRUE,
                     index |-> ScanTars(<<>>, dir, <<Head(tar_files(dir))>>)]]

\* TarRandomAccess_init looking for the cache file before it looks for containers
TarRandomAccess_init_cache_first(dir, cache) ==
    IF cache.exists
    THEN [raised |-> "", index |-> cache.index, loaded |-> TRUE, cache |-> cache]
    ELSE IF Len(tar_files(dir)) = 0
    THEN [raised |-> "ValueError", index |-> <<>>, loaded |-> FALSE, cache |-> cache]
    ELSE LET built == ScanTars(<<>>, dir, tar_files(dir))
         IN  [raised |-> "", index |-> built, loaded |-> FALSE,
              cache |-> [exists |-> TRUE, index |-> built]]

\* TarRandomAccess_init scanning the containers whether or not the cache exists
TarRandomAccess_init_rescanning(dir, cache) ==
    IF Len(tar_files(dir)) = 0
    THEN [raised |-> "ValueError", index |-> <<>>, loaded |-> FALSE, cache |-> cache]
    ELSE [raised |-> "", index |-> ScanTars(<<>>, dir, tar_files(dir)), loaded |-> FALSE,
          cache |-> [exists |-> TRUE, index |-> ScanTars(<<>>, dir, tar_files(dir))]]

\* TarRandomAccess.__init__: the member index, whether it came from the cache,
\* and the cache file as the constructor leaves it
TarRandomAccess_init(dir, cache) ==
    IF Len(tar_files(dir)) = 0
    THEN [raised |-> "ValueError", index |-> <<>>, loaded |-> FALSE, cache |-> cache]
    ELSE IF cache.exists
    THEN [raised |-> "", index |-> cache.index, loaded |-> TRUE, cache |-> cache]
    ELSE LET built == ScanTars(<<>>, dir, tar_files(dir))
         IN  [raised |-> "", index |-> built, loaded |-> FALSE,
              cache |-> [exists |-> TRUE, index |-> built]]

\* what TarRandomAccess.__init__ prints (lines 22 and 30) and shows as the
\* description of its progress bar (line 26); the constructor issues nothing else
TarRandomAccess_printed(dir, cache) ==
    IF Len(tar_files(dir)) = 0 THEN <<>>
    ELSE IF cache.exists THEN <<"Loading tar files index from cache">>
    ELSE <<"Indexing tar files", "Saving tar files index to cache">>

\* self.file_names = list(self.index.keys())
file_names(index) == [i \in 1..Len(index) |-> index[i].name]

\* TarRandomAccess.__getitem__: what reading the member gives.
\* tarfile.open fails when the container is gone; otherwise the bytes at the
\* recorded location of the container as it is now are read.
TarRandomAccess_getitem(index, dir, file_name) ==
    IF \A i \in 1..Len(index) : index[i].name # file_name
    THEN [raised |-> "", found |-> FALSE, data |-> [shape |-> 0, val |-> 0]]
    ELSE LET d == index[CHOOSE i \in 1..Len(index) : index[i].name = file_name]
         IN  IF ~ dir[d.tar].exists
             THEN [raised |-> "FileNotFoundError", found |-> FALSE,
                   data |-> [shape |-> 0, val |-> 0]]
             ELSE IF d.info > Len(dir[d.tar].members)
             THEN [raised |-> "EOFError", found |-> FALSE,
                   data |-> [shape |-> 0, val |-> 0]]
             ELSE [raised |-> "", found |-> TRUE,
                   data |-> dir[d.tar].members[d.info].data]

----------------------------------------------------------------------------
(* class WebDataset *)

\* GroupNames appending the prefix of every name to self.prefixes
RECURSIVE GroupNames_repeating(_, _, _, _)
GroupNames_repeating(index, prefixes, names, k) ==
    IF k > Len(names) THEN [index |-> index, prefixes |-> prefixes]
    ELSE IF Len(names[k]) < 2
    THEN GroupNames_repeating(index, prefixes, names, k + 1)
    ELSE IF Head(names[k]) \notin DOMAIN index
    THEN GroupNames_repeating((Head(names[k]) :> <<Tail(names[k])>>) @@ index,
                              Append(prefixes, Head(names[k])), names, k + 1)
    ELSE GroupNames_repeating([index EXCEPT ![Head(names[k])] = Append(@, Tail(names[k]))],
                              Append(prefixes, Head(names[k])), names, k + 1)

\* file_name.split('.', 1): the prefix and the rest
\* for file_name in self.tars.file_names: ... self.index[prefix].append(postfix)
RECURSIVE GroupNames(_, _, _, _)
GroupNames(index, prefixes, names, k) ==
    IF k > Len(names) THEN [index |-> index, prefixes |-> prefixes]
    ELSE LET file_name == names[k]
         IN  IF Len(file_name) < 2
             THEN GroupNames(index, prefixes, names, k + 1)
             ELSE LET prefix  == Head(file_name)
                      postfix == Tail(file_name)
                  IN  IF prefix \notin DOMAIN index
                      THEN GroupNames((prefix :> <<postfix>>) @@ index,
                                      Append(prefixes, prefix), names, k + 1)
                      ELSE GroupNames([index EXCEPT ![prefix] = Append(@, postfix)],
                                      prefixes, names, k + 1)

\* WebDataset.__init__ after self.tars is built
WebDataset_init(names) == GroupNames(<<>>, <<>>, names, 1)

\* WebDataset.__len__
WebDataset_len(webindex) == Cardinality(DOMAIN webindex)

\* file_name.endswith('.npy')
endswith_npy(file_name) == file_name[Len(file_name)] = "npy"

\* decode taking any file for an array
decode_any(read, file_name) ==
    IF ~ read.found THEN [raised |-> "TypeError", data |-> read.data]
    ELSE [raised |-> "", data |-> read.data]

\* WebDataset.decode
decode(read, file_name) ==
    IF ~ endswith_npy(file_name) THEN [raised |-> "ValueError", data |-> read.data]
    ELSE IF ~ read.found THEN [raised |-> "TypeError", data |-> read.data]
    ELSE [raised |-> "", data |-> read.data]

\* WebDataset.__getitem__(prefix) for a str index: every member of the sample is
\* read and decoded, in the order of the sample's postfix list
RECURSIVE DecodeSample(_, _, _, _, _, _)
DecodeSample(data, index, dir, prefix, sample, k) ==
    IF k > Len(sample) THEN [raised |-> "", found |-> TRUE, data |-> data]
    ELSE LET postfix   == sample[k]
             file_name == <<prefix>> \o postfix
             read      == TarRandomAccess_getitem(index, dir, file_name)
             d         == IF read.raised # ""
                          THEN [raised |-> read.raised, data |-> read.data]
                          ELSE decode(read, file_name)
         IN  IF d.raised # ""
             THEN [raised |-> d.raised, found |-> FALSE, data |-> data]
             ELSE DecodeSample((postfix :> d.data) @@ data, index, dir, prefix,
                               sample, k + 1)

WebDataset_getitem(webindex, index, dir, prefix) ==
    IF prefix \notin DOMAIN webindex
    THEN [raised |-> "", found |-> FALSE, data |-> <<>>]
    ELSE DecodeSample(<<>>, index, dir, prefix, webindex[prefix], 1)

----------------------------------------------------------------------------
(* class SDOMLlite: construction *)

\* an optional date bound as the caller passes it: None, a datetime or a str
NoDate == [kind |-> "none", dt |-> 0, str |-> <<>>]

Datetime(d) == [kind |-> "datetime", dt |-> d, str |-> <<>>]

IsoString(s) == [kind |-> "str", dt |-> 0, str |-> s]

\* date_exclusions: None, or a list of (start, end) pairs of datetimes
NoExclusions == [present |-> FALSE, windows |-> <<>>]

Exclusions(windows) == [present |-> TRUE, windows |-> windows]

\* if isinstance(date, str): date = datetime.datetime.fromisoformat(date)
as_datetime(date) == IF date.kind = "str" THEN fromisoformat(date.str) ELSE date.dt

\* SDOMLlite.find_date_range: the first and the last prefix of the sample index
find_date_range(prefixes) ==
    IF Len(prefixes) = 0
    THEN [raised |-> "IndexError", date_start |-> 0, date_end |-> 0]
    ELSE IF ~ Parsable(prefixes[1]) \/ ~ Parsable(prefixes[Len(prefixes)])
    THEN [raised |-> "ValueError", date_start |-> 0, date_end |-> 0]
    ELSE [raised |-> "", date_start |-> prefix_to_date(prefixes[1]),
          date_end |-> prefix_to_date(prefixes[Len(prefixes)])]

\* lines 104-111: a requested start inside [found start, found end) is adopted
clamp_start(date_start, found_start, found_end) ==
    IF date_start.kind = "none" THEN found_start
    ELSE IF as_datetime(date_start) >= found_start /\ as_datetime(date_start) < found_end
    THEN as_datetime(date_start)
    ELSE found_start

\* clamp_end without the test against the effective start
clamp_end_unordered(date_end, self_date_start, found_end) ==
    IF date_end.kind = "none" THEN found_end
    ELSE IF as_datetime(date_end) <= found_end
    THEN as_datetime(date_end)
    ELSE found_end

\* lines 112-118: a requested end inside (effective start, found end] is adopted
clamp_end(date_end, self_date_start, found_end) ==
    IF date_end.kind = "none" THEN found_end
    ELSE IF as_datetime(date_end) > self_date_start /\ as_datetime(date_end) <= found_end
    THEN as_datetime(date_end)
    ELSE found_end

\* int(x): truncation towards zero
int_div(a, b) == IF a >= 0 THEN a \div b ELSE -((-a) \div b)

\* total_steps with the end bound counted in
total_steps_inclusive(date_start, date_end) ==
    int_div(date_end - date_start, 60) \div delta_minutes + 1

\* total_minutes = int(total_seconds / 60); total_steps = total_minutes // delta_minutes
total_steps(date_start, date_end) ==
    int_div(date_end - date_start, 60) \div delta_minutes

\* in_window with the end of the window counted in
in_window_closed(date, window) == date >= window[1] /\ date <= window[2]

\* (date >= exclusion_date_start) and (date < exclusion_date_end)
in_window(date, window) == date >= window[1] /\ date < window[2]

\* excluded testing the first window of the list only
excluded_first_window(date, date_exclusions) ==
    /\ date_exclusions.present
    /\ Len(date_exclusions.windows) >= 1
    /\ in_window(date, date_exclusions.windows[1])

\* the loop over self.date_exclusions (lines 158-162 and 216-219)
excluded(date, date_exclusions) ==
    /\ date_exclusions.present
    /\ \E k \in 1..Len(date_exclusions.windows) :
          in_window(date, date_exclusions.windows[k])

\* has_channels content with one of the channels
has_some_channel(webindex, prefix, channels) ==
    /\ prefix \in DOMAIN webindex
    /\ \E c \in 1..Len(channels) :
          \E k \in 1..Len(webindex[prefix]) :
             webindex[prefix][k] = <<channels[c], "npy">>

\* lines 149-157: the prefix is in the sample index with every channel's postfix
has_channels(webindex, prefix, channels) ==
    /\ prefix \in DOMAIN webindex
    /\ \A c \in 1..Len(channels) :
          \E k \in 1..Len(webindex[prefix]) :
             webindex[prefix][k] = <<channels[c], "npy">>

\* check_complete_channels leaving the loop at the first slot that fails a test
RECURSIVE check_complete_channels_until_gap(_, _, _, _, _, _, _)
check_complete_channels_until_gap(dates, i, steps, webindex, channels, date_start, date_exclusions) ==
    IF i >= steps THEN dates
    ELSE LET date   == date_start + (delta_minutes * i) * 60
             exists == /\ has_channels(webindex, date_to_prefix(date), channels)
                       /\ ~ excluded(date, date_exclusions)
         IN  IF ~ exists THEN dates
             ELSE check_complete_channels_until_gap(Append(dates, date), i + 1, steps,
                                                    webindex, channels, date_start,
                                                    date_exclusions)

\* lines 145-164: the candidate slots that pass both tests, in slot order
RECURSIVE check_complete_channels(_, _, _, _, _, _, _)
check_complete_channels(dates, i, steps, webindex, channels, date_start, date_exclusions) ==
    IF i >= steps THEN dates
    ELSE LET date   == date_start + (delta_minutes * i) * 60
             exists == /\ has_channels(webindex, date_to_prefix(date), channels)
                       /\ ~ excluded(date, date_exclusions)
         IN  check_complete_channels(IF exists THEN Append(dates, date) ELSE dates,
                                     i + 1, steps, webindex, channels, date_start,
                                     date_exclusions)

\* '_'.join(self.channels): the pieces of all the names, in order
RECURSIVE join(_)
join(channels) ==
    IF channels = <<>> THEN <<>> ELSE Head(channels) \o join(Tail(channels))

\* date_exclusions_postfix (lines 128-135)
date_exclusions_postfix(date_exclusions) ==
    [present |-> date_exclusions.present,
     windows |-> [k \in 1..Len(date_exclusions.windows) |->
                    <<isoformat(date_exclusions.windows[k][1]),
                      isoformat(date_exclusions.windows[k][2])>>]]

\* dates_cache (line 138): the file name, kept as its four formatted parts
dates_cache(channels, date_start, date_end, date_exclusions) ==
    [channels   |-> join(channels),
     date_start |-> isoformat(date_start),
     date_end   |-> isoformat(date_end),
     exclusions |-> date_exclusions_postfix(date_exclusions)]

\* no_frames tested in the computing branch only
no_frames_when_computed(dates, loaded) == Len(dates) = 0 /\ ~ loaded

\* if len(self.dates) == 0: raise RuntimeError (line 169), whichever branch gave the list
no_frames(dates, loaded) == Len(dates) = 0

\* the object before construction, and what a constructor that raised leaves
NoStore ==
    [state |-> "Uninitialized", raised |-> "",
     tars_index |-> <<>>, index |-> <<>>, prefixes |-> <<>>,
     channels |-> <<>>, date_start |-> 0, date_end |-> 0,
     date_exclusions |-> NoExclusions, dates |-> <<>>, dates_set |-> {}]

Failed(self, raised) == [self EXCEPT !.state = "Failed", !.raised = raised]

\* SDOMLlite.__init__: the object, and the directory's cache files afterwards
SDOMLlite_init(dir, cache, dcaches, channels, date_start, date_end, date_exclusions) ==
    LET t    == TarRandomAccess_init(dir, cache)
        w    == WebDataset_init(file_names(t.index))
        r    == find_date_range(w.prefixes)
        s0   == [NoStore EXCEPT !.channels = channels, !.tars_index = t.index,
                                !.index = w.index, !.prefixes = w.prefixes]
        ds   == clamp_start(date_start, r.date_start, r.date_end)
        de   == clamp_end(date_end, ds, r.date_end)
        name == dates_cache(channels, ds, de, date_exclusions)
        hit  == name \in DOMAIN dcaches
        dates == IF hit THEN dcaches[name]
                 ELSE check_complete_channels(<<>>, 0, total_steps(ds, de), w.index,
                                              channels, ds, date_exclusions)
        s1   == [s0 EXCEPT !.date_start = ds, !.date_end = de,
                           !.date_exclusions = date_exclusions, !.dates = dates]
        out(self, c, d, il, dl, wrote) ==
            [store |-> self, cache |-> c, dcaches |-> d,
             index_loaded |-> il, dates_loaded |-> dl, dates_written |-> wrote,
             name |-> name]
    IN  IF t.raised # ""
        THEN out(Failed([NoStore EXCEPT !.channels = channels], t.raised),
                 t.cache, dcaches, FALSE, FALSE, FALSE)
        ELSE IF r.raised # ""
        THEN out(Failed(s0, r.raised), t.cache, dcaches, t.loaded, FALSE, FALSE)
        ELSE LET d2 == IF hit THEN dcaches ELSE (name :> dates) @@ dcaches
             IN  IF no_frames(dates, hit)
                 THEN out(Failed(s1, "RuntimeError"), t.cache, d2, t.loaded, hit, ~ hit)
                 ELSE out([s1 EXCEPT !.state = "Ready",
                                     !.dates_set = {dates[k] : k \in 1..Len(dates)}],
                          t.cache, d2, t.loaded, hit, ~ hit)

\* which cache files hold a cut-off pickle: tar_files_index, and the date lists
\* by name; none does unless a process died while it wrote one
NoneTruncated == [index |-> FALSE, dates |-> {}]

\* pickle.load(f) of the date list (lines 142-143) raises on a cut-off file; o is
\* what the constructor gives when the file it loads is whole
load_dates(o, cut) ==
    IF o.dates_loaded /\ o.name \in cut.dates
    THEN [o EXCEPT !.store = Failed([o.store EXCEPT !.dates = <<>>, !.dates_set = {}],
                                    "UnpicklingError"),
                   !.dates_loaded = FALSE]
    ELSE o

\* SDOMLlite.__init__ over the files as they are: pickle.load of a cut-off file
\* raises (lines 23-24 and 142-143), of a whole one gives what was dumped
SDOMLlite_init_files(dir, cache, dcaches, cut, channels, date_start, date_end, date_exclusions) ==
    IF Len(tar_files(dir)) > 0 /\ cache.exists /\ cut.index
    THEN [store |-> Failed([NoStore EXCEPT !.channels = channels], "UnpicklingError"),
          cache |-> cache, dcaches |-> dcaches, index_loaded |-> FALSE,
          dates_loaded |-> FALSE, dates_written |-> FALSE,
          name |-> dates_cache(<<>>, 0, 0, NoExclusions)]
    ELSE load_dates(SDOMLlite_init(dir, cache, dcaches, channels, date_start, date_end,
                                   date_exclusions), cut)

----------------------------------------------------------------------------
(* class SDOMLlite: len() and get() *)

\* dates_at counting every index from the end
dates_at_reversed(dates, index) ==
    IF index >= -Len(dates) /\ index < Len(dates)
    THEN [raised |-> "", date |-> dates[Len(dates) - ((index + Len(dates)) % Len(dates))]]
    ELSE [raised |-> "IndexError", date |-> 0]

\* date = self.dates[index] for an int: Python list indexing, negatives from the end
dates_at(dates, index) ==
    IF index >= 0 /\ index < Len(dates)
    THEN [raised |-> "", date |-> dates[index + 1]]
    ELSE IF index < 0 /\ index >= -Len(dates)
    THEN [raised |-> "", date |-> dates[Len(dates) + index + 1]]
    ELSE [raised |-> "IndexError", date |-> 0]

\* stack with the channels taken last to first
stack_reversed(data, channels) ==
    [c \in 1..Len(channels) |-> data[<<channels[Len(channels) + 1 - c], "npy">>]]

\* lines 223-228: the planes, one per channel of self.channels, in that order
stack(data, channels) == [c \in 1..Len(channels) |-> data[<<channels[c], "npy">>]]

\* np.stack needs arrays of one shape
same_shape(planes) == \A a, b \in 1..Len(planes) : planes[a].shape = planes[b].shape

NotFound == [raised |-> "", found |-> FALSE, planes |-> <<>>]

Raise(err) == [raised |-> err, found |-> FALSE, planes |-> <<>>]

\* fetch without the test of lines 216-219
fetch_unguarded(self, dir, date) ==
    LET data == WebDataset_getitem(self.index, self.tars_index, dir, date_to_prefix(date))
    IN  IF data.raised # "" THEN Raise(data.raised)
        ELSE IF ~ data.found THEN Raise("TypeError")
        ELSE IF \E c \in 1..Len(self.channels) :
                   <<self.channels[c], "npy">> \notin DOMAIN data.data
        THEN Raise("KeyError")
        ELSE IF ~ same_shape(stack(data.data, self.channels))
        THEN Raise("ValueError")
        ELSE [raised |-> "", found |-> TRUE, planes |-> stack(data.data, self.channels)]

\* SDOMLlite.get_data after the lookup in self.dates_set (lines 216-230)
fetch(self, dir, date) ==
    IF excluded(date, self.date_exclusions) THEN Raise("RuntimeError")
    ELSE LET prefix == date_to_prefix(date)
             data   == WebDataset_getitem(self.index, self.tars_index, dir, prefix)
         IN  IF data.raised # "" THEN Raise(data.raised)
             ELSE IF ~ data.found THEN Raise("TypeError")
             ELSE IF \E c \in 1..Len(self.channels) :
                        <<self.channels[c], "npy">> \notin DOMAIN data.data
             THEN Raise("KeyError")
             ELSE IF ~ same_shape(stack(data.data, self.channels))
             THEN Raise("ValueError")
             ELSE [raised |-> "", found |-> TRUE,
                   planes |-> stack(data.data, self.channels)]

\* get_data with the range test of lines 209-210 switched on
get_data_range_checked(self, dir, date) ==
    IF date < self.date_start \/ date > self.date_end THEN Raise("ValueError")
    ELSE IF date \notin self.dates_set THEN NotFound
    ELSE fetch(self, dir, date)

\* SDOMLlite.get_data
get_data(self, dir, date) ==
    IF date \notin self.dates_set THEN NotFound ELSE fetch(self, dir, date)

\* an index as the caller passes it: an int, a datetime, a str, anything else
IntIndex(i) == [kind |-> "int", int |-> i, str |-> <<>>]

DateIndex(d) == [kind |-> "datetime", int |-> d, str |-> <<>>]

StrIndex(s) == [kind |-> "str", int |-> 0, str |-> s]

OtherIndex == [kind |-> "other", int |-> 0, str |-> <<>>]

\* SDOMLlite.__getitem__: (data, date.isoformat()), or the exception
SDOMLlite_getitem(self, dir, index) ==
    LET at   == IF index.kind = "int" THEN dates_at(self.dates, index.int)
                ELSE IF index.kind = "datetime" THEN [raised |-> "", date |-> index.int]
                ELSE IF index.kind = "str"
                THEN [raised |-> "", date |-> fromisoformat(index.str)]
                ELSE [raised |-> "ValueError", date |-> 0]
        data == get_data(self, dir, at.date)
    IN  IF at.raised # ""
        THEN [raised |-> at.raised, found |-> FALSE, planes |-> <<>>,
              date |-> 0, iso |-> <<>>]
        ELSE IF data.raised # ""
        THEN [raised |-> data.raised, found |-> FALSE, planes |-> <<>>,
              date |-> at.date, iso |-> <<>>]
        ELSE [raised |-> "", found |-> data.found, planes |-> data.planes,
              date |-> at.date, iso |-> isoformat(at.date)]

\* SDOMLlite.__len__
SDOMLlite_len(self) == Len(self.dates)

----------------------------------------------------------------------------
(* class WebDataset used on its own, with a decode_func *)

\* a decode_func of the caller's: it takes the bytes of any member, whatever the
\* extension, and gives them back under its own mark (val negated)
caller_decode(read, file_name) ==
    IF ~ read.found THEN [raised |-> "TypeError", data |-> read.data]
    ELSE [raised |-> "", data |-> [shape |-> read.data.shape, val |-> - read.data.val]]

\* self.decode_func as lines 48-51 set it, applied to a member
decode_func(given, read, file_name) ==
    IF given = "None" THEN decode(read, file_name) ELSE caller_decode(read, file_name)

\* what a call on the WebDataset gives back
NoWebOut ==
    [op |-> "none", index |-> OtherIndex, raised |-> "",
     found |-> FALSE, prefix |-> <<>>, data |-> <<>>, n |-> 0]

\* WebDataset.__getitem__: a str is the prefix, an int indexes self.prefixes,
\* anything else is refused
WebDataset_subscript(self, dir, index) ==
    LET at == IF index.kind = "str" THEN [raised |-> "", date |-> index.str]
              ELSE IF index.kind = "int" THEN dates_at(self.prefixes, index.int)
              ELSE [raised |-> "ValueError", date |-> <<>>]
        g  == WebDataset_getitem(self.index, self.tars_index, dir, at.date)
    IN  IF at.raised # ""
        THEN [NoWebOut EXCEPT !.op = "get", !.index = index, !.raised = at.raised]
        ELSE [NoWebOut EXCEPT !.op = "get", !.index = index, !.raised = g.raised,
                              !.found = g.found, !.prefix = at.date,
                              !.data = IF g.found THEN g.data ELSE <<>>]

----------------------------------------------------------------------------
(* get() as the steps of one reader among several *)

\* what dataset[index] gives back: (data, date.isoformat()) or the exception
Out(raised, found, planes, date, iso) ==
    [raised |-> raised, found |-> found, planes |-> planes, date |-> date, iso |-> iso]

\* a reader outside any call; in a call: where it is (pc), the index it was given,
\* the date it resolved, the postfix it is at (k), the arrays decoded so far
IdleReader ==
    [pc |-> "idle", index |-> OtherIndex, date |-> 0, k |-> 0, data |-> <<>>,
     out |-> Out("", FALSE, <<>>, 0, <<>>)]

Done(reader, out) == [reader EXCEPT !.pc = "done", !.out = out]

\* a container handle: closed, or open and positioned at a member
ClosedHandle == [open |-> FALSE, tar |-> 0, info |-> 0]

\* one handle for all the calls, held open by the object
handle_shared(r) == 1

\* with tarfile.open(tar_file) as tar (line 40): each extraction opens its own
handle_of(r) == r

\* d = self.index.get(file_name) (line 36) for a name that is in the index
locate(index, file_name) ==
    index[CHOOSE i \in 1..Len(index) : index[i].name = file_name]

\* the name of the member reader r is at: prefix + '.' + postfix (line 88)
file_name_of(reader) ==
    <<date_to_prefix(reader.date)>> \o store.index[date_to_prefix(reader.date)][reader.k]

\* dataset[index] is called (lines 196-205, 212-221, 81-83): up to the loop over
\* the sample's postfixes
BeginGet(r, index) ==
    /\ store.state = "Ready"
    /\ readers[r].pc = "idle"
    /\ LET at == IF index.kind = "int" THEN dates_at(store.dates, index.int)
                 ELSE IF index.kind = "datetime" THEN [raised |-> "", date |-> index.int]
                 ELSE IF index.kind = "str"
                 THEN [raised |-> "", date |-> fromisoformat(index.str)]
                 ELSE [raised |-> "ValueError", date |-> 0]
           me == [readers[r] EXCEPT !.index = index, !.date = at.date]
       IN  readers' = [readers EXCEPT ![r] =
              IF at.raised # "" THEN Done(me, Out(at.raised, FALSE, <<>>, 0, <<>>))
              ELSE IF at.date \notin store.dates_set
              THEN Done(me, Out("", FALSE, <<>>, at.date, isoformat(at.date)))
              ELSE IF excluded(at.date, store.date_exclusions)
              THEN Done(me, Out("RuntimeError", FALSE, <<>>, at.date, <<>>))
              ELSE IF date_to_prefix(at.date) \notin DOMAIN store.index
              THEN Done(me, Out("TypeError", FALSE, <<>>, at.date, <<>>))
              ELSE [me EXCEPT !.pc = "open", !.k = 1]]
    /\ UNCHANGED handles
    /\ UNCHANGED <<shared, tools>>

\* self.tars[file_name] up to tar.extractfile(tar_member) (lines 36-41): the
\* container is opened and the handle positioned at the member
OpenMember(r) ==
    /\ readers[r].pc = "open"
    /\ LET me   == readers[r]
           name == file_name_of(me)
           read == TarRandomAccess_getitem(store.tars_index, tars, name)
           dec  == decode(read, name)
       IN  IF read.raised # "" \/ ~ read.found
           THEN /\ readers' = [readers EXCEPT ![r] =
                       Done(me, Out(IF read.raised # "" THEN read.raised ELSE dec.raised,
                                    FALSE, <<>>, me.date, <<>>))]
                /\ UNCHANGED handles
           ELSE /\ readers' = [readers EXCEPT ![r].pc = "read"]
                /\ handles' = [handles EXCEPT ![handle_of(r)] =
                       [open |-> TRUE, tar |-> locate(store.tars_index, name).tar,
                        info |-> locate(store.tars_index, name).info]]
    /\ UNCHANGED <<shared, tools>>

\* .read() at the handle's position, the handle is closed, the bytes are decoded
\* and kept under the postfix (lines 41, 89-90)
ReadMember(r) ==
    /\ readers[r].pc = "read"
    /\ LET me   == readers[r]
           h    == handles[handle_of(r)]
           name == file_name_of(me)
           dec  == decode([raised |-> "", found |-> TRUE,
                           data |-> tars[h.tar].members[h.info].data], name)
           n    == Len(store.index[date_to_prefix(me.date)])
       IN  readers' = [readers EXCEPT ![r] =
              IF ~ h.open THEN Done(me, Out("ValueError", FALSE, <<>>, me.date, <<>>))
              ELSE IF dec.raised # ""
              THEN Done(me, Out(dec.raised, FALSE, <<>>, me.date, <<>>))
              ELSE [me EXCEPT !.data = (Tail(name) :> dec.data) @@ me.data,
                              !.k = me.k + 1,
                              !.pc = IF me.k = n THEN "stack" ELSE "open"]]
    /\ handles' = [handles EXCEPT ![handle_of(r)] = ClosedHandle]
    /\ UNCHANGED <<shared, tools>>

\* the channels are picked and stacked (lines 223-230), and the call returns
StackPlanes(r) ==
    /\ readers[r].pc = "stack"
    /\ LET me == readers[r]
       IN  readers' = [readers EXCEPT ![r] =
              IF \E c \in 1..Len(store.channels) :
                    <<store.channels[c], "npy">> \notin DOMAIN me.data
              THEN Done(me, Out("KeyError", FALSE, <<>>, me.date, <<>>))
              ELSE IF ~ same_shape(stack(me.data, store.channels))
              THEN Done(me, Out("ValueError", FALSE, <<>>, me.date, <<>>))
              ELSE Done(me, Out("", TRUE, stack(me.data, store.channels), me.date,
                                isoformat(me.date)))]
    /\ UNCHANGED handles
    /\ UNCHANGED <<shared, tools>>

\* the reader takes what the call gave and is free for the next call
Return(r) ==
    /\ readers[r].pc = "done"
    /\ readers' = [readers EXCEPT ![r] = IdleReader]
    /\ UNCHANGED handles
    /\ UNCHANGED <<shared, tools>>

----------------------------------------------------------------------------
(* The download scripts get_sdo.py, get_aia.py and get_hmi.py: main() *)

\* the loop that lists the files (get_sdo.py lines 66-79): for every cadence step
\* from date_start up to, not including, date_end, one file per wavelength
RECURSIVE generate_file_names(_, _, _, _, _)
generate_file_names(files, current, date_end, cadence, wavelengths) ==
    IF ~ (current < date_end) THEN files
    ELSE generate_file_names(
             files \o [w \in 1..Len(wavelengths) |-> <<current, wavelengths[w]>>],
             current + cadence, date_end, cadence, wavelengths)

\* list[a:b] for a, b >= 0: the ends are cut to the list's length
slice(list, a, b) ==
    SubSeq(list, (IF a < Len(list) THEN a ELSE Len(list)) + 1,
                 IF b < Len(list) THEN b ELSE Len(list))

\* files_per_node = len(file_names) // args.total_nodes
files_per_node(files, total_nodes) == Len(files) \div total_nodes

\* main() after the list is made (get_sdo.py lines 82-92): the files this node
\* goes on to fetch; none when it returns early
file_names_for_this_node(files, total_nodes, node_index) ==
    IF Len(files) = 0 THEN <<>>
    ELSE IF Len(files) < total_nodes THEN <<>>
    ELSE slice(files, node_index * files_per_node(files, total_nodes),
               (node_index + 1) * files_per_node(files, total_nodes))

\* a download job: the arguments all its nodes are started with, and per
\* node_index whether the node has run and the files it took
Job(date_end, cadence, wavelengths, total_nodes) ==
    [date_end |-> date_end, cadence |-> cadence, wavelengths |-> wavelengths,
     total_nodes |-> total_nodes,
     nodes |-> [i \in 0..total_nodes - 1 |-> [ran |-> FALSE, files |-> <<>>]]]

----------------------------------------------------------------------------
(* The inputs: containers, configurations, indexes *)

hmi_m == <<"hmi", "m">>
aia_0171 == <<"aia", "0171">>
aia_0193 == <<"aia", "0193">>
hmi == <<"hmi">>
m == <<"m">>

\* the prefix 2022/11/01/HHMM of the minute mm of that day
P(mm) == <<0, mm \div 60, mm % 60>>

\* the datetime 2022-11-01T00:mm:00
T(mm) == mm * 60

Member(prefix, channel, ext, shape, val) ==
    [name |-> <<prefix, channel, ext>>, data |-> [shape |-> shape, val |-> val]]

\* 2022/11/01/0000 and 0015, both channels each, members sorted by name
Scenario ==
    TarFile(<< Member(P(0), aia_0171, "npy", 1, 1), Member(P(0), hmi_m, "npy", 1, 2),
               Member(P(15), aia_0171, "npy", 1, 3), Member(P(15), hmi_m, "npy", 1, 4) >>)

\* 0030 lacks aia_0171
Later ==
    TarFile(<< Member(P(30), hmi_m, "npy", 1, 5),
               Member(P(45), aia_0171, "npy", 1, 6), Member(P(45), hmi_m, "npy", 1, 7) >>)

\* the same slots as Later, complete; the two arrays of 0030 differ in shape
LaterFull ==
    TarFile(<< Member(P(30), aia_0171, "npy", 2, 8), Member(P(30), hmi_m, "npy", 1, 9),
               Member(P(45), aia_0171, "npy", 1, 10), Member(P(45), hmi_m, "npy", 1, 11) >>)

\* a name without '.', prefixes out of order, a member that is no .npy file,
\* a prefix that is no timestamp
Mixed ==
    TarFile(<< [name |-> << <<0>> >>, data |-> [shape |-> 1, val |-> 12]],
               Member(P(15), hmi_m, "npy", 1, 13), Member(P(15), <<"meta">>, "txt", 1, 14),
               Member(P(0), hmi_m, "npy", 1, 15), Member(<<0, 0, 75>>, hmi_m, "npy", 1, 16) >>)

Containers == {Scenario, Later, LaterFull, Mixed}

\* a directory holding c1 as shard 1 and c2 as shard 2
Dir(c1, c2) ==
    [p \in 1..MaxTars |-> IF p = 1 THEN c1 ELSE IF p = 2 THEN c2 ELSE NoFile]

InitialDirs ==
    { Dir(NoFile, NoFile), Dir(Scenario, NoFile), Dir(Scenario, Later),
      Dir(Scenario, LaterFull), Dir(Later, LaterFull), Dir(Mixed, NoFile),
      Dir(Mixed, Later) }

Config(channels, date_start, date_end, date_exclusions) ==
    [channels |-> channels, date_start |-> date_start, date_end |-> date_end,
     date_exclusions |-> date_exclusions]

\* the constructor's arguments
Configurations ==
    { Config(<<hmi_m, aia_0171>>, NoDate, NoDate, NoExclusions),
      Config(<<hmi_m, aia_0171>>, NoDate, NoDate, Exclusions(<< <<T(10), T(20)>> >>)),
      Config(<<hmi_m, aia_0171>>, NoDate, NoDate, Exclusions(<< <<T(15), T(30)>> >>)),
      Config(<<aia_0171, hmi_m>>, NoDate, NoDate, NoExclusions),
      Config(<<hmi_m>>, NoDate, NoDate, NoExclusions),
      Config(<<hmi, m>>, NoDate, NoDate, NoExclusions),
      Config(<<aia_0193>>, NoDate, NoDate, NoExclusions),
      Config(<<hmi_m>>, Datetime(T(15)), NoDate, NoExclusions),
      Config(<<hmi_m>>, NoDate, IsoString(<<0, 0, 30>>), NoExclusions),
      Config(<<hmi_m>>, Datetime(T(15)), IsoString(<<0, 0, 30>>),
             Exclusions(<< <<T(15), T(30)>> >>)) }

\* the argument of dataset[...]
Indexes ==
    {IntIndex(i) : i \in -1..MaxOrdinal}
    \cup {DateIndex(T(15)), DateIndex(T(30))}
    \cup {StrIndex(<<0, 0, 5>>), StrIndex(<<0, 0, 0>>)}
    \cup {OtherIndex}

\* the calls made while the directory changes
DirConfigurations ==
    { Config(<<hmi_m, aia_0171>>, NoDate, NoDate, NoExclusions),
      Config(<<hmi_m>>, NoDate, NoDate, NoExclusions),
      Config(<<hmi, m>>, NoDate, NoDate, NoExclusions) }

DirInitialDirs == {Dir(Scenario, NoFile), Dir(Scenario, Later), Dir(Later, LaterFull)}

DirContainers == {Scenario, LaterFull}

DirIndexes == {IntIndex(0), DateIndex(T(30)), StrIndex(<<0, 0, 5>>)}

\* the stores the concurrent readers work on
ReaderDirs == {Dir(Scenario, Later), Dir(Scenario, LaterFull)}

ReaderConfigurations ==
    { Config(<<hmi_m, aia_0171>>, NoDate, NoDate, NoExclusions),
      Config(<<hmi_m>>, NoDate, NoDate, NoExclusions) }

\* the directories and the requested bounds the clamping is tried on
ClampDirs == {Dir(Scenario, NoFile), Dir(Scenario, Later), Dir(Later, LaterFull)}

ClampConfigurations ==
    { Config(<<hmi_m>>, NoDate, NoDate, NoExclusions),
      Config(<<hmi_m>>, Datetime(T(15)), IsoString(<<0, 0, 30>>), NoExclusions),
      Config(<<hmi_m>>, Datetime(T(45)), NoDate, NoExclusions),
      Config(<<hmi_m>>, Datetime(T(30)), Datetime(T(15)), NoExclusions),
      Config(<<hmi_m>>, NoDate, Datetime(T(0)), NoExclusions),
      Config(<<hmi_m>>, IsoString(<<0, 0, 15, 0>>), Datetime(T(45)), NoExclusions),
      Config(<<hmi_m>>, Datetime(T(60)), IsoString(<<0, 1, 0>>), NoExclusions) }

\* the directories and the indexes a WebDataset is tried on
WebDirs ==
    { Dir(NoFile, NoFile), Dir(Scenario, NoFile), Dir(Mixed, NoFile), Dir(Mixed, Later),
      Dir(Later, LaterFull), Dir(Scenario, LaterFull), Dir(Scenario, Later),
      Dir(Later, NoFile) }

WebIndexes ==
    {IntIndex(i) : i \in -1..MaxOrdinal}
    \cup {StrIndex(P(0)), StrIndex(P(15)), StrIndex(P(30)), StrIndex(<<0, 0, 5>>)}
    \cup {DateIndex(T(15)), OtherIndex}

\* the calls made around a date list that someone else put in the directory
ForeignDirs == {Dir(Scenario, NoFile), Dir(Scenario, Later)}

ForeignConfigurations ==
    { Config(<<hmi_m>>, NoDate, NoDate, Exclusions(<< <<T(15), T(30)>> >>)),
      Config(<<hmi, m>>, NoDate, NoDate, Exclusions(<< <<T(15), T(30)>> >>)),
      Config(<<hmi_m>>, NoDate, NoDate, NoExclusions) }

ForeignIndexes == {IntIndex(0), IntIndex(1), DateIndex(T(15)), StrIndex(<<0, 0, 30>>)}

\* the download jobs: the default cadence of get_sdo.py (12 minutes, in seconds),
\* ranges of 0 to MaxSteps steps, one or two wavelengths, 1 to MaxNodes nodes
Jobs ==
    {Job(720 * steps, 720, wavelengths, total_nodes) :
        steps \in 0..MaxSteps, wavelengths \in {<<171>>, <<171, 193>>},
        total_nodes \in 1..MaxNodes}

----------------------------------------------------------------------------
(* The state machine *)

NoName == dates_cache(<<>>, 0, 0, NoExclusions)

\* no WebDataset made yet
NoWeb ==
    [state |-> "Uninitialized", raised |-> "", decode_func |-> "None",
     tars_index |-> <<>>, index |-> <<>>, prefixes |-> <<>>, out |-> NoWebOut]

\* no download started
NoDownload ==
    [date_end |-> 0, cadence |-> 0, wavelengths |-> <<>>, total_nodes |-> 0,
     nodes |-> <<>>]

NoResult ==
    [op |-> "none", index |-> OtherIndex,
     config |-> Config(<<>>, NoDate, NoDate, NoExclusions), raised |-> "", found |-> FALSE,
     planes |-> <<>>, date |-> 0, iso |-> <<>>, n |-> 0,
     index_loaded |-> FALSE, dates_loaded |-> FALSE, dates_written |-> FALSE,
     name |-> NoName, printed |-> <<>>]

InitIn(dirs) ==
    /\ tars \in dirs
    /\ tar_files_index = NoCache
    /\ dates_index = <<>>
    /\ index_origin = Dir(NoFile, NoFile)
    /\ dates_origin = <<>>
    /\ truncated = NoneTruncated
    /\ store = NoStore
    /\ result = NoResult
    /\ dir_changes = 0
    /\ readers = [r \in 1..MaxReaders |-> IdleReader]
    /\ handles = [h \in 1..MaxReaders |-> ClosedHandle]
    /\ web = NoWeb
    /\ download = NoDownload

Init == InitIn(InitialDirs)

InitDir == InitIn(DirInitialDirs)

\* SDOMLlite(data_dir, channels, date_start, date_end, date_exclusions)
Construct(channels, date_start, date_end, date_exclusions) ==
    LET o == SDOMLlite_init_files(tars, tar_files_index, dates_index, truncated,
                                  channels, date_start, date_end, date_exclusions)
    IN  /\ o.dates_written => Cardinality(DOMAIN dates_index) < MaxDateCaches
        /\ store' = o.store
        /\ tar_files_index' = o.cache
        /\ dates_index' = o.dcaches
        /\ index_origin' = IF o.cache.exists /\ ~ tar_files_index.exists
                           THEN tars ELSE index_origin
        /\ dates_origin' =
              IF o.dates_written
              THEN (o.name :> [channels |-> channels,
                               date_start |-> o.store.date_start,
                               date_end |-> o.store.date_end,
                               date_exclusions |-> date_exclusions,
                               tars_index |-> o.store.tars_index]) @@ dates_origin
              ELSE dates_origin
        /\ result' = [NoResult EXCEPT !.op = "init", !.raised = o.store.raised,
                                      !.config = Config(channels, date_start, date_end,
                                                        date_exclusions),
                                      !.index_loaded = o.index_loaded,
                                      !.dates_loaded = o.dates_loaded,
                                      !.dates_written = o.dates_written,
                                      !.name = o.name,
                                      !.printed = TarRandomAccess_printed(tars, tar_files_index)]
        /\ UNCHANGED <<tars, truncated, dir_changes>>
        /\ UNCHANGED <<calls, tools>>

\* len(dataset)
Length ==
    /\ store.state = "Ready"
    /\ result' = [NoResult EXCEPT !.op = "len", !.n = SDOMLlite_len(store)]
    /\ UNCHANGED <<tars, tar_files_index, dates_index, index_origin, dates_origin,
                   truncated, store, dir_changes>>
    /\ UNCHANGED <<calls, tools>>

\* dataset[index] adding the requested date to self.dates_set
Get_remembering(index) ==
    /\ store.state = "Ready"
    /\ LET g == SDOMLlite_getitem(store, tars, index)
       IN  /\ result' = [NoResult EXCEPT !.op = "get", !.index = index,
                                         !.raised = g.raised, !.found = g.found,
                                         !.planes = g.planes, !.date = g.date,
                                         !.iso = g.iso]
           /\ store' = [store EXCEPT !.dates_set = @ \cup {g.date}]
    /\ UNCHANGED <<tars, tar_files_index, dates_index, index_origin, dates_origin,
                   truncated, dir_changes>>
    /\ UNCHANGED <<calls, tools>>

\* dataset[index]
Get(index) ==
    /\ store.state = "Ready"
    /\ LET g == SDOMLlite_getitem(store, tars, index)
       IN  result' = [NoResult EXCEPT !.op = "get", !.index = index,
                                      !.raised = g.raised, !.found = g.found,
                                      !.planes = g.planes, !.date = g.date,
                                      !.iso = g.iso]
    /\ UNCHANGED <<tars, tar_files_index, dates_index, index_origin, dates_origin,
                   truncated, store, dir_changes>>
    /\ UNCHANGED <<calls, tools>>

\* someone writes or replaces the container of shard p, and may delete
\* tar_files_index with it so that the next construction scans again
PutTar(p, container, rescan) ==
    /\ dir_changes < MaxDirChanges
    /\ tars[p] # container
    /\ tars' = [tars EXCEPT ![p] = container]
    /\ tar_files_index' = IF rescan THEN NoCache ELSE tar_files_index
    /\ dir_changes' = dir_changes + 1
    /\ UNCHANGED <<dates_index, index_origin, dates_origin, truncated, store, result>>
    /\ UNCHANGED <<calls, tools>>

\* someone removes the container of shard p, and may delete tar_files_index with it
RemoveTar(p, rescan) ==
    /\ dir_changes < MaxDirChanges
    /\ tars[p].exists
    /\ tars' = [tars EXCEPT ![p] = NoFile]
    /\ tar_files_index' = IF rescan THEN NoCache ELSE tar_files_index
    /\ dir_changes' = dir_changes + 1
    /\ UNCHANGED <<dates_index, index_origin, dates_origin, truncated, store, result>>
    /\ UNCHANGED <<calls, tools>>

\* someone deletes tar_files_index
RemoveIndexCache ==
    /\ dir_changes < MaxDirChanges
    /\ tar_files_index.exists
    /\ tar_files_index' = NoCache
    /\ dir_changes' = dir_changes + 1
    /\ UNCHANGED <<tars, dates_index, index_origin, dates_origin, truncated, store, result>>
    /\ UNCHANGED <<calls, tools>>

\* the process is killed while SDOMLlite(...) writes tar_files_index (lines 31-32):
\* open(index_cache, 'wb') has created the file, pickle.dump has not finished
CrashSavingIndex ==
    /\ Len(tar_files(tars)) > 0
    /\ ~ tar_files_index.exists
    /\ tar_files_index' = [exists |-> TRUE, index |-> <<>>]
    /\ truncated' = [truncated EXCEPT !.index = TRUE]
    /\ store' = NoStore
    /\ result' = [NoResult EXCEPT !.op = "killed"]
    /\ UNCHANGED <<tars, dates_index, index_origin, dates_origin, dir_changes>>
    /\ UNCHANGED <<calls, tools>>

\* the directory and the process after a constructor that got as far as o was
\* killed in pickle.dump of the date list
KilledSavingDates(o, config) ==
    /\ o.dates_written
    /\ Cardinality(DOMAIN dates_index) < MaxDateCaches
    /\ tar_files_index' = o.cache
    /\ index_origin' = IF o.cache.exists /\ ~ tar_files_index.exists
                       THEN tars ELSE index_origin
    /\ dates_index' = (o.name :> <<>>) @@ dates_index
    /\ truncated' = [truncated EXCEPT !.dates = @ \cup {o.name}]
    /\ store' = NoStore
    /\ result' = [NoResult EXCEPT !.op = "killed", !.name = o.name, !.config = config]
    /\ UNCHANGED <<tars, dates_origin, dir_changes>>
    /\ UNCHANGED <<calls, tools>>

\* the process is killed while SDOMLlite(...) writes the date list (lines 165-167)
CrashSavingDates(channels, date_start, date_end, date_exclusions) ==
    KilledSavingDates(SDOMLlite_init_files(tars, tar_files_index, dates_index, truncated,
                                           channels, date_start, date_end,
                                           date_exclusions),
                      Config(channels, date_start, date_end, date_exclusions))

Next ==
    \/ \E c \in Configurations :
          Construct(c.channels, c.date_start, c.date_end, c.date_exclusions)
    \/ Length
    \/ \E index \in Indexes : Get(index)

\* the directory may also change between the calls
NextDir ==
    \/ \E c \in DirConfigurations :
          Construct(c.channels, c.date_start, c.date_end, c.date_exclusions)
    \/ Length
    \/ \E index \in DirIndexes : Get(index)
    \/ \E p \in 1..MaxTars, container \in DirContainers, rescan \in BOOLEAN :
          PutTar(p, container, rescan)
    \/ \E p \in 1..MaxTars, rescan \in BOOLEAN : RemoveTar(p, rescan)
    \/ RemoveIndexCache

\* the calls may also be cut short by the death of the process
NextCrash ==
    \/ \E c \in DirConfigurations :
          Construct(c.channels, c.date_start, c.date_end, c.date_exclusions)
    \/ Length
    \/ \E index \in DirIndexes : Get(index)
    \/ CrashSavingIndex
    \/ \E c \in DirConfigurations :
          CrashSavingDates(c.channels, c.date_start, c.date_end, c.date_exclusions)

\* constructions with requested bounds inside, on the edge of and outside the
\* range found in the directory
NextClamp ==
    \/ \E c \in ClampConfigurations :
          Construct(c.channels, c.date_start, c.date_end, c.date_exclusions)
    \/ Length
    \/ \E index \in DirIndexes : Get(index)

\* WebDataset(data_dir, decode_func)
WebConstruct(given) ==
    LET t == TarRandomAccess_init(tars, tar_files_index)
        w == WebDataset_init(file_names(t.index))
        cut == Len(tar_files(tars)) > 0 /\ tar_files_index.exists /\ truncated.index
    IN  /\ web' = IF cut \/ t.raised # ""
                  THEN [NoWeb EXCEPT !.state = "Failed", !.decode_func = given,
                                     !.raised = IF cut THEN "UnpicklingError" ELSE t.raised]
                  ELSE [NoWeb EXCEPT !.state = "Built", !.decode_func = given,
                                     !.tars_index = t.index, !.index = w.index,
                                     !.prefixes = w.prefixes,
                                     !.out = [NoWebOut EXCEPT !.op = "init"]]
        /\ tar_files_index' = IF cut THEN tar_files_index ELSE t.cache
        /\ index_origin' = IF t.cache.exists /\ ~ tar_files_index.exists
                           THEN tars ELSE index_origin
    /\ UNCHANGED <<tars, dates_index, dates_origin, truncated, store, result, dir_changes>>
    /\ UNCHANGED <<calls, download>>

\* len(webdataset)
WebLength ==
    /\ web.state = "Built"
    /\ web' = [web EXCEPT !.out = [NoWebOut EXCEPT !.op = "len",
                                                   !.n = WebDataset_len(web.index)]]
    /\ UNCHANGED <<shared, calls, download>>

\* webdataset[index]
WebGet(index) ==
    /\ web.state = "Built"
    /\ web' = [web EXCEPT !.out = WebDataset_subscript(web, tars, index)]
    /\ UNCHANGED <<shared, calls, download>>

\* a caller uses WebDataset without SDOMLlite
NextWeb ==
    \/ \E given \in {"None", "caller"} : WebConstruct(given)
    \/ WebLength
    \/ \E index \in WebIndexes : WebGet(index)

\* someone writes a date list of their own under the name SDOMLlite gives the
\* date list of configuration c with the bounds 00:00 and date_end
PutDatesCache(c, date_end, dates) ==
    LET name == dates_cache(c.channels, T(0), date_end, c.date_exclusions)
    IN  /\ dir_changes < MaxDirChanges
        /\ name \in DOMAIN dates_index \/ Cardinality(DOMAIN dates_index) < MaxDateCaches
        /\ dates_index' = (name :> dates) @@ dates_index
        /\ dates_origin' = [n \in DOMAIN dates_origin \ {name} |-> dates_origin[n]]
        /\ truncated' = [truncated EXCEPT !.dates = @ \ {name}]
        /\ dir_changes' = dir_changes + 1
        /\ UNCHANGED <<tars, tar_files_index, index_origin, store, result>>
        /\ UNCHANGED <<calls, tools>>

\* the calls, with date lists in the directory that SDOMLlite did not write
NextForeign ==
    \/ \E c \in ForeignConfigurations :
          Construct(c.channels, c.date_start, c.date_end, c.date_exclusions)
    \/ Length
    \/ \E index \in ForeignIndexes : Get(index)
    \/ \E c \in ForeignConfigurations, date_end \in {T(15), T(45)},
          dates \in {<<T(0), T(15)>>, <<T(15)>>} :
          PutDatesCache(c, date_end, dates)

\* the script runs on the node started with --node_index node_index
RunNode(node_index) ==
    /\ node_index \in DOMAIN download.nodes
    /\ ~ download.nodes[node_index].ran
    /\ download' =
          [download EXCEPT !.nodes[node_index] =
              [ran |-> TRUE,
               files |-> file_names_for_this_node(
                             generate_file_names(<<>>, 0, download.date_end,
                                                 download.cadence, download.wavelengths),
                             download.total_nodes, node_index)]]
    /\ UNCHANGED <<shared, calls, web>>

\* a download job given to its nodes, none of which has run
InitNodes ==
    /\ tars = Dir(NoFile, NoFile)
    /\ tar_files_index = NoCache
    /\ dates_index = <<>>
    /\ index_origin = Dir(NoFile, NoFile)
    /\ dates_origin = <<>>
    /\ truncated = NoneTruncated
    /\ store = NoStore
    /\ result = NoResult
    /\ dir_changes = 0
    /\ readers = [r \in 1..MaxReaders |-> IdleReader]
    /\ handles = [h \in 1..MaxReaders |-> ClosedHandle]
    /\ web = NoWeb
    /\ download \in Jobs

NextNodes == \E node_index \in 0..MaxNodes - 1 : RunNode(node_index)

\* the directory dir and the store o.store after the constructor call that gave o
ConstructedIn(dir, c, o) ==
    /\ o.store.state = "Ready"
    /\ tars = dir
    /\ tar_files_index = o.cache
    /\ dates_index = o.dcaches
    /\ index_origin = dir
    /\ dates_origin = (o.name :> [channels |-> c.channels,
                                  date_start |-> o.store.date_start,
                                  date_end |-> o.store.date_end,
                                  date_exclusions |-> c.date_exclusions,
                                  tars_index |-> o.store.tars_index])
    /\ truncated = NoneTruncated
    /\ store = o.store
    /\ result = [NoResult EXCEPT !.op = "init", !.config = c,
                                 !.dates_written = TRUE, !.name = o.name,
                                 !.printed = TarRandomAccess_printed(dir, NoCache)]
    /\ dir_changes = 0
    /\ readers = [r \in 1..MaxReaders |-> IdleReader]
    /\ handles = [h \in 1..MaxReaders |-> ClosedHandle]
    /\ web = NoWeb
    /\ download = NoDownload

\* a Ready store, as its constructor left it and the directory, with no cache
\* file before
InitReaders ==
    \E dir \in ReaderDirs, c \in ReaderConfigurations :
        ConstructedIn(dir, c, SDOMLlite_init(dir, NoCache, <<>>, c.channels, c.date_start,
                                             c.date_end, c.date_exclusions))

\* several readers call get() on the store, their steps interleaved
NextReaders ==
    \/ \E r \in 1..MaxReaders, index \in DirIndexes : BeginGet(r, index)
    \/ \E r \in 1..MaxReaders : OpenMember(r)
    \/ \E r \in 1..MaxReaders : ReadMember(r)
    \/ \E r \in 1..MaxReaders : StackPlanes(r)
    \/ \E r \in 1..MaxReaders : Return(r)

Spec == Init /\ [][Next]_vars

SpecClamp == InitIn(ClampDirs) /\ [][NextClamp]_vars

SpecWeb == InitIn(WebDirs) /\ [][NextWeb]_vars

SpecForeign == InitIn(ForeignDirs) /\ [][NextForeign]_vars

SpecNodes == InitNodes /\ [][NextNodes]_vars

SpecReaders == InitReaders /\ [][NextReaders]_vars

SpecCrash == InitDir /\ [][NextCrash]_vars

SpecDir == InitDir /\ [][NextDir]_vars

----------------------------------------------------------------------------
(* Properties *)

\* the timestamps of the Temporal Index, as a set
Dates == {store.dates[k] : k \in 1..Len(store.dates)}

\* the windows handed to the constructor, as a set
Windows ==
    {store.date_exclusions.windows[k] : k \in 1..Len(store.date_exclusions.windows)}

\* the constructor went as far as the date list (loaded or computed)
ReachedDates == result.op = "init" /\ (result.dates_loaded \/ result.dates_written)

ScenarioChannels == <<hmi_m, aia_0171>>

DefaultBounds == result.config.date_start.kind = "none" /\ result.config.date_end.kind = "none"

\* C1: once construction has succeeded, every timestamp of the Temporal Index is
\* date_start plus a whole number (>= 0) of 15 minute steps, lies in
\* [date_start, date_end) and lies in no exclusion window [s, e).
C1_TemporalIndexSound ==
    store.state = "Ready" =>
        \A t \in Dates :
            /\ t >= store.date_start
            /\ (t - store.date_start) % (15 * 60) = 0
            /\ t < store.date_end
            /\ \A w \in Windows : ~ (w[1] <= t /\ t < w[2])

\* C1 happens: a Ready store built with a window that covers a complete slot and
\* with two timestamps left in its index
C1_Witness ==
    /\ store.state = "Ready"
    /\ Len(store.dates) >= 2
    /\ \E w \in Windows :
          \E i \in 0..(total_steps(store.date_start, store.date_end) - 1) :
             LET t == store.date_start + i * 15 * 60
             IN  /\ w[1] <= t /\ t < w[2]
                 /\ has_channels(store.index, date_to_prefix(t), store.channels)

\* C2: with default bounds and no exclusion windows the store over the two prefixes
\* 2022/11/01/0000 and 0015 (hmi_m.npy and aia_0171.npy each), channels
\* [hmi_m, aia_0171], has the Temporal Index [00:00, 00:15] and len() = 2; in
\* general, under default bounds, the channel-complete sample at the latest
\* discovered prefix is in the Temporal Index.
C2_LatestPrefixIndexed ==
    (ReachedDates /\ result.dates_written /\ DefaultBounds
        /\ ~ result.config.date_exclusions.present) =>
        /\ (tars = Dir(Scenario, NoFile) /\ store.channels = ScenarioChannels) =>
              /\ store.state = "Ready"
              /\ store.dates = <<T(0), T(15)>>
              /\ SDOMLlite_len(store) = 2
        /\ \A p \in DOMAIN store.index :
              (/\ Parsable(p)
               /\ \A q \in DOMAIN store.index :
                     Parsable(q) => prefix_to_date(q) <= prefix_to_date(p)
               /\ has_channels(store.index, p, store.channels))
              => prefix_to_date(p) \in Dates

\* C3: exclusion windows are half-open: when the date list is computed, a
\* channel-complete candidate slot is dropped exactly when start <= t < end for
\* some window (a slot at a window's start is dropped, one at its end is kept);
\* the two-prefix store with the window [00:10, 00:20) has the index [00:00].
C3_ExclusionHalfOpen ==
    (ReachedDates /\ result.dates_written) =>
        /\ \A i \in 0..(total_steps(store.date_start, store.date_end) - 1) :
              LET t == store.date_start + i * 15 * 60
              IN  has_channels(store.index, date_to_prefix(t), store.channels) =>
                     ((t \notin Dates) <=> (\E w \in Windows : w[1] <= t /\ t < w[2]))
        /\ (/\ tars = Dir(Scenario, NoFile)
            /\ result.config = Config(ScenarioChannels, NoDate, NoDate,
                                      Exclusions(<< <<T(10), T(20)>> >>)))
           => /\ store.state = "Ready"
              /\ store.dates = <<T(0)>>
              /\ SDOMLlite_len(store) = 1

\* C3 happens: a computed index where a complete slot at a window's start was
\* dropped and a complete slot at the window's end was kept
C3_Witness ==
    /\ ReachedDates /\ result.dates_written
    /\ \E w \in Windows :
          /\ has_channels(store.index, date_to_prefix(w[1]), store.channels)
          /\ w[1] >= store.date_start /\ w[1] < store.date_end
          /\ w[1] \notin Dates
          /\ has_channels(store.index, date_to_prefix(w[2]), store.channels)
          /\ w[2] \in Dates

\* C4: a constructor whose date list, computed or loaded from the cache, is empty
\* fails with a fatal error and the store is not Ready (so with a requested
\* channel that no sample has); every Ready store has len() >= 1.
C4_NoFramesIsFatal ==
    /\ store.state = "Ready" => (Len(store.dates) >= 1 /\ SDOMLlite_len(store) >= 1)
    /\ (ReachedDates /\ store.dates = <<>>) =>
          (store.state = "Failed" /\ store.raised = "RuntimeError"
             /\ result.raised = "RuntimeError")
    /\ (/\ ReachedDates /\ result.dates_written
        /\ \E c \in 1..Len(store.channels) : \A p \in DOMAIN store.index :
              \A k \in 1..Len(store.index[p]) :
                 store.index[p][k] # <<store.channels[c], "npy">>)
       => (store.state = "Failed" /\ store.raised = "RuntimeError")

\* C4 happens: a constructor that loaded an empty date list from the cache failed
C4_Witness ==
    /\ ReachedDates /\ result.dates_loaded
    /\ store.dates = <<>>
    /\ store.state = "Failed"
    /\ store.channels = <<aia_0193>>

\* the timestamp an index of kind datetime or str names
Requested ==
    IF result.index.kind = "str" THEN fromisoformat(result.index.str)
    ELSE result.index.int

\* C5: get() of a datetime or a parseable ISO string whose timestamp is not in the
\* Temporal Index returns not-found as its data, with no exception.
C5_AbsentTimestampNotFound ==
    (/\ result.op = "get"
     /\ result.index.kind \in {"datetime", "str"}
     /\ Requested \notin Dates)
    => /\ result.raised = ""
       /\ ~ result.found
       /\ result.planes = <<>>

\* C5 happens: get("2022-11-01T00:05") on the store of the two-prefix scenario
C5_Witness ==
    /\ result.op = "get"
    /\ result.index = StrIndex(<<0, 0, 5>>)
    /\ tars = Dir(Scenario, NoFile)
    /\ store.channels = ScenarioChannels
    /\ ~ result.found /\ result.raised = ""

\* C5 also happens for a timestamp in range whose slot is complete but excluded
C5_ExcludedReached ==
    /\ result.op = "get"
    /\ result.index.kind = "datetime"
    /\ Requested >= store.date_start /\ Requested < store.date_end
    /\ has_channels(store.index, date_to_prefix(Requested), store.channels)
    /\ \E w \in Windows : w[1] <= Requested /\ Requested < w[2]
    /\ ~ result.found /\ result.raised = ""

\* the timestamp of the Temporal Index with exactly i smaller ones
Smallest(i) == CHOOSE t \in Dates : Cardinality({u \in Dates : u < t}) = i

\* the array stored under a member name: that of the member of this name in the
\* last container, in shard order, that holds one
Content(name) ==
    LET holders == {p \in DOMAIN tars :
                       tars[p].exists /\ \E k \in 1..Len(tars[p].members) :
                                            tars[p].members[k].name = name}
        last    == CHOOSE p \in holders : \A q \in holders : q <= p
        k       == CHOOSE j \in 1..Len(tars[last].members) :
                       tars[last].members[j].name = name
    IN  tars[last].members[k].data

\* the planes get() owes for timestamp t: one per channel, in the channel order
Planes(t) ==
    [c \in 1..Len(store.channels) |->
        Content(<<date_to_prefix(t), store.channels[c], "npy">>)]

\* C6: the Temporal Index is strictly ascending without duplicates, len() is its
\* number of entries, and for 0 <= i < len() get(i) is the sample of the i-th
\* smallest timestamp with that timestamp's canonical ISO string.
C6_OrdinalOrder ==
    /\ store.state = "Ready" =>
          /\ \A a, b \in 1..Len(store.dates) : a < b => store.dates[a] < store.dates[b]
          /\ SDOMLlite_len(store) = Cardinality(Dates)
    /\ result.op = "len" => result.n = Cardinality(Dates)
    /\ (/\ result.op = "get" /\ result.index.kind = "int"
        /\ result.index.int >= 0 /\ result.index.int < Cardinality(Dates))
       => /\ result.raised # "IndexError"
          /\ result.date = Smallest(result.index.int)
          /\ result.raised = "" =>
                /\ result.found
                /\ result.iso = <<result.date \div 86400, (result.date % 86400) \div 3600,
                                  (result.date % 3600) \div 60, result.date % 60>>
                /\ result.planes = Planes(Smallest(result.index.int))

\* C6 happens: get(1) on an index of three timestamps gave the middle one's sample
C6_Witness ==
    /\ result.op = "get" /\ result.index = IntIndex(1)
    /\ Len(store.dates) = 3
    /\ result.found
    /\ result.iso = <<0, 0, 15, 0>>

\* C7: for a timestamp D of the Temporal Index, get(D) gives len(channel_set)
\* planes, plane i being the decoded member prefix(D).channel_set[i].npy: the
\* order is that of the configured channels, not that of the container's members.
C7_ChannelOrder ==
    (result.op = "get" /\ result.raised = "" /\ result.date \in Dates) =>
        /\ result.found
        /\ Len(result.planes) = Len(store.channels)
        /\ \A c \in 1..Len(store.channels) :
              result.planes[c] =
                  Content(<<date_to_prefix(result.date), store.channels[c], "npy">>)

\* C7 happens: get(D) returned two planes for channels configured in the order
\* opposite to that of the members in the container
C7_Witness ==
    /\ result.op = "get" /\ result.index.kind = "datetime" /\ result.found
    /\ store.channels = <<hmi_m, aia_0171>>
    /\ store.index[date_to_prefix(result.date)] = << <<aia_0171, "npy">>, <<hmi_m, "npy">> >>
    /\ result.planes[1] # result.planes[2]

\* what the constructor call just made gives in a directory holding the same
\* containers and no cache file
Fresh ==
    SDOMLlite_init(tars, NoCache, <<>>, result.config.channels, result.config.date_start,
                   result.config.date_end, result.config.date_exclusions)

\* the cache files the constructor call just made has read were written from the
\* containers now in the directory, the date list with these channels and windows
CachesOfTheseInputs ==
    /\ result.index_loaded => index_origin = tars
    /\ result.dates_loaded =>
          /\ dates_origin[result.name].channels = result.config.channels
          /\ dates_origin[result.name].date_exclusions = result.config.date_exclusions
          /\ dates_origin[result.name].tars_index = Fresh.store.tars_index

\* C8: build-or-load is idempotent: a construction that finds the cache files an
\* earlier construction wrote from the same directory contents and parameters
\* yields the Member Index and the Temporal Index (and the outcome) of a fresh
\* construction without caches, however often it is repeated.
C8_BuildOrLoadIdempotent ==
    (/\ result.op = "init"
     /\ result.index_loaded \/ result.dates_loaded
     /\ CachesOfTheseInputs)
    => /\ store.tars_index = Fresh.store.tars_index
       /\ store.dates = Fresh.store.dates
       /\ store = Fresh.store

\* C8 happens: a constructor read both cache files, written from these inputs,
\* over two containers, and the store is Ready
C8_Witness ==
    /\ result.op = "init"
    /\ result.index_loaded /\ result.dates_loaded
    /\ CachesOfTheseInputs
    /\ store.state = "Ready"
    /\ Len(tar_files(tars)) = 2

\* C9: the date-list cache name is injective in (channel list, effective
\* date_start, effective date_end, exclusion windows): a constructor never loads
\* a date list that was computed for another configuration.
C9_CacheNameInjective ==
    (result.op = "init" /\ result.dates_loaded) =>
        /\ dates_origin[result.name].channels = store.channels
        /\ dates_origin[result.name].date_start = store.date_start
        /\ dates_origin[result.name].date_end = store.date_end
        /\ dates_origin[result.name].date_exclusions = store.date_exclusions

\* C10: when the container files changed between two constructions, the later one
\* does not reuse a date list computed from the earlier containers: the Temporal
\* Index it returns is the one computed without cache over its Sample Index
\* (stated for a date list loaded under the channels and windows it was written
\* for, so that a failure is one of staleness, not of two names colliding).
C10_ContainerChangeInvalidates ==
    (/\ result.op = "init" /\ result.dates_loaded
     /\ dates_origin[result.name].channels = store.channels
     /\ dates_origin[result.name].date_exclusions = store.date_exclusions)
    => store.dates =
          check_complete_channels(<<>>, 0, total_steps(store.date_start, store.date_end),
                                  store.index, store.channels, store.date_start,
                                  store.date_exclusions)

\* window lists that cover more than the ones of Configurations: a window added
\* after or before, a window widened
WiderWindows ==
    { Exclusions(<< <<T(10), T(20)>>, <<T(15), T(30)>> >>),
      Exclusions(<< <<T(15), T(30)>>, <<T(0), T(10)>> >>),
      Exclusions(<< <<T(10), T(20)>> >>),
      Exclusions(<< <<T(0), T(30)>> >>),
      Exclusions(<< <<T(15), T(45)>> >>) }

\* the minutes of the first hour
Timestamps == {T(mm) : mm \in 0..60}

\* some window of the list W contains t
Covered(t, W) ==
    /\ W.present
    /\ \E k \in 1..Len(W.windows) : W.windows[k][1] <= t /\ t < W.windows[k][2]

\* the Temporal Index computed without cache over the containers of the directory,
\* with the bounds of the constructor call just made
TemporalIndex(channels, W) ==
    LET dates == SDOMLlite_init(tars, NoCache, <<>>, channels, result.config.date_start,
                                result.config.date_end, W).store.dates
    IN  {dates[k] : k \in 1..Len(dates)}

\* C11: exclusion monotonicity: with the containers, channels and bounds kept, a
\* window list W2 that covers every timestamp the list W covers gives a Temporal
\* Index that is a subset of the one of W, and what is removed is exactly the
\* timestamps of TemporalIndex(W) that W2 covers.
C11_ExclusionMonotone ==
    (result.op = "init" /\ result.dates_written) =>
        \A W2 \in WiderWindows :
            (\A t \in Timestamps : Covered(t, result.config.date_exclusions) => Covered(t, W2))
            => /\ TemporalIndex(store.channels, W2) \subseteq Dates
               /\ Dates \ TemporalIndex(store.channels, W2) = {t \in Dates : Covered(t, W2)}

\* C11 happens: an index computed under the window [00:10, 00:20) of which a wider
\* list removes one timestamp and keeps another
C11_Witness ==
    /\ result.op = "init" /\ result.dates_written
    /\ result.config.date_exclusions = Exclusions(<< <<T(10), T(20)>> >>)
    /\ \E W2 \in WiderWindows :
          /\ \A t \in Timestamps : Covered(t, result.config.date_exclusions) => Covered(t, W2)
          /\ TemporalIndex(store.channels, W2) # {}
          /\ TemporalIndex(store.channels, W2) # Dates

\* the channels added to a channel list
FurtherChannels == {aia_0171, aia_0193, hmi_m}

\* C12: completeness monotonicity: with the containers, bounds and exclusions
\* kept, every timestamp retained for the channels plus a further channel is
\* retained for the channels alone, and a timestamp is retained only if every
\* requested channel has its member <prefix>.<channel>.npy.
C12_CompletenessMonotone ==
    (result.op = "init" /\ result.dates_written) =>
        /\ \A extra \in FurtherChannels :
              TemporalIndex(Append(store.channels, extra), store.date_exclusions)
                 \subseteq Dates
        /\ \A t \in Dates : \A c \in 1..Len(store.channels) :
              \E i \in 1..Len(store.tars_index) :
                 store.tars_index[i].name = <<date_to_prefix(t), store.channels[c], "npy">>

\* C12 happens: an index computed for one channel that loses a timestamp, and
\* keeps another, when a channel is added
C12_Witness ==
    /\ result.op = "init" /\ result.dates_written
    /\ store.channels = <<hmi_m>>
    /\ \E extra \in FurtherChannels :
          /\ TemporalIndex(Append(store.channels, extra), store.date_exclusions) # {}
          /\ TemporalIndex(Append(store.channels, extra), store.date_exclusions) # Dates

\* cadence-aligned timestamps, over a change of hour and of day
AlignedTimestamps ==
    {d * 86400 + h * 3600 + q * (delta_minutes * 60) : d \in 0..1, h \in {0, 9, 23}, q \in 0..3}

\* the prefixes YYYY/MM/DD/HHMM that name them
AlignedPrefixes == {<<d, h, mi>> : d \in 0..1, h \in {0, 9, 23}, mi \in {0, 15, 30, 45}}

\* the cadence-aligned timestamps and prefixes the store holds
AlignedDates == {t \in Dates : t % (delta_minutes * 60) = 0}

AlignedStorePrefixes ==
    {p \in DOMAIN store.index : Parsable(p) /\ p[3] % delta_minutes = 0}

\* C13: round trip: prefix_to_date(date_to_prefix(t)) = t for every cadence-aligned
\* timestamp t, date_to_prefix(prefix_to_date(p)) = p for every prefix
\* YYYY/MM/DD/HHMM naming one, and a memoized call gives what the function gives.
C13_RoundTrip ==
    /\ \A t \in AlignedTimestamps \cup AlignedDates : prefix_to_date(date_to_prefix(t)) = t
    /\ \A p \in AlignedPrefixes \cup AlignedStorePrefixes :
          Parsable(p) /\ date_to_prefix(prefix_to_date(p)) = p
    /\ \A t1, t2 \in AlignedTimestamps \cup AlignedDates :
          lru_cache(lru_cache(<<>>, t1, date_to_prefix(t1)).memo, t2, date_to_prefix(t2)).value
             = date_to_prefix(t2)
    /\ \A p1, p2 \in AlignedPrefixes \cup AlignedStorePrefixes :
          lru_cache(lru_cache(<<>>, p1, prefix_to_date(p1)).memo, p2, prefix_to_date(p2)).value
             = prefix_to_date(p2)

\* C13 happens: a Ready store whose bounds came from prefix_to_date, whose three
\* timestamps went through date_to_prefix, and a get() that found a sample through it
C13_Witness ==
    /\ store.state = "Ready" /\ Len(store.dates) = 3
    /\ store.date_end = prefix_to_date(store.prefixes[Len(store.prefixes)])
    /\ \A t \in Dates : date_to_prefix(t) \in DOMAIN store.index
    /\ result.op = "get" /\ result.found
    /\ prefix_to_date(date_to_prefix(result.date)) = result.date

\* the index of the latest get() named a timestamp: an int inside the list, a
\* datetime or a str
GetResolved ==
    /\ result.op = "get"
    /\ result.index.kind \in {"int", "datetime", "str"}
    /\ result.index.kind = "int" =>
          (result.index.int >= -Len(store.dates) /\ result.index.int < Len(store.dates))

\* the names of the Member Index
MemberNames == {store.tars_index[i].name : i \in 1..Len(store.tars_index)}

\* C15: a member missing at extraction gives not-found, never an exception:
\* TarRandomAccess[name] for a name absent from the Member Index returns not-found,
\* and a get() of an indexed timestamp for which a requested channel has no member
\* reports not-found instead of raising.
C15_MissingMemberNotFound ==
    /\ store.state = "Ready" =>
          \A name \in {<<P(0), aia_0193, "npy">>, <<P(5), hmi_m, "npy">>} \ MemberNames :
              LET read == TarRandomAccess_getitem(store.tars_index, tars, name)
              IN  read.raised = "" /\ ~ read.found
    /\ (/\ GetResolved /\ result.date \in Dates
        /\ \E c \in 1..Len(store.channels) :
              <<date_to_prefix(result.date), store.channels[c], "npy">> \notin MemberNames)
       => (result.raised = "" /\ ~ result.found)

\* C16: decoding a member whose name does not end in .npy fails with the
\* decoder's error, which reaches the caller of the retrieval: get() of an indexed
\* timestamp whose sample holds such a member raises it, and gives neither
\* not-found nor data.
C16_UnsupportedFormatPropagates ==
    (/\ GetResolved /\ result.date \in Dates
     /\ ~ Covered(result.date, store.date_exclusions)
     /\ date_to_prefix(result.date) \in DOMAIN store.index
     /\ \E k \in 1..Len(store.index[date_to_prefix(result.date)]) :
           LET postfix == store.index[date_to_prefix(result.date)][k]
           IN  postfix[Len(postfix)] # "npy")
    => /\ result.raised = "ValueError"
       /\ ~ result.found
       /\ result.planes = <<>>

\* C16 happens: get() of 00:15, indexed for hmi_m, whose sample also holds meta.txt
C16_Witness ==
    /\ GetResolved /\ result.date = T(15) /\ T(15) \in Dates
    /\ store.channels = <<hmi_m>>
    /\ << <<"meta">>, "txt" >> \in
          {store.index[P(15)][k] : k \in 1..Len(store.index[P(15)])}
    /\ result.raised = "ValueError"

\* C20: on a cache miss the Temporal Index is complete and sound: the slot
\* date_start + 15*i minutes, 0 <= i < floor((date_end - date_start) / 15 min), is
\* retained if and only if its prefix is a key of the Sample Index, every channel
\* has its postfix under it and no window contains it; the list holds each
\* retained slot once, in ascending order.
C20_CacheMissComplete ==
    (result.op = "init" /\ result.dates_written) =>
        LET n == (store.date_end - store.date_start) \div (15 * 60)
            slot(i) == store.date_start + i * 15 * 60
            eligible(t) ==
                /\ date_to_prefix(t) \in DOMAIN store.index
                /\ \A c \in 1..Len(store.channels) :
                      <<store.channels[c], "npy">> \in
                         {store.index[date_to_prefix(t)][k] :
                             k \in 1..Len(store.index[date_to_prefix(t)])}
                /\ \A w \in Windows : ~ (w[1] <= t /\ t < w[2])
        IN  /\ Dates = {slot(i) : i \in {j \in 0..(n - 1) : eligible(slot(j))}}
            /\ Len(store.dates) = Cardinality(Dates)
            /\ \A a, b \in 1..Len(store.dates) : a < b => store.dates[a] < store.dates[b]

\* C20 happens: a computed index over several candidate slots of which one lacks
\* a channel or lies in a window, and a later one is retained
C20_Witness ==
    /\ result.op = "init" /\ result.dates_written
    /\ \E t \in Dates : \E u \in Timestamps :
          /\ store.date_start <= u /\ u < t
          /\ (u - store.date_start) % (15 * 60) = 0
          /\ u \notin Dates

\* C14: in a directory holding no container file the constructor raises a fatal
\* error before any index is built, loaded or persisted, whether or not the file
\* tar_files_index exists.
C14_NoContainerIsFatal ==
    [][(/\ tar_files(tars) = <<>>
        /\ \E c \in Configurations \cup DirConfigurations :
              Construct(c.channels, c.date_start, c.date_end, c.date_exclusions))
       => /\ store'.state = "Failed"
          /\ store'.raised = "ValueError" /\ result'.raised = "ValueError"
          /\ store'.tars_index = <<>> /\ store'.index = <<>> /\ store'.dates = <<>>
          /\ ~ result'.index_loaded /\ ~ result'.dates_loaded /\ ~ result'.dates_written
          /\ tar_files_index' = tar_files_index
          /\ dates_index' = dates_index]_vars

\* C14 happens: a constructor failed in a directory without containers in which
\* tar_files_index exists
C14_Witness ==
    /\ result.op = "init" /\ result.raised = "ValueError"
    /\ store.state = "Failed" /\ store.tars_index = <<>>
    /\ tar_files(tars) = <<>>
    /\ tar_files_index.exists

\* C19: on a Ready store a len() or get() call, whether it returns data, returns
\* not-found or raises, changes neither the Member Index, the Sample Index, the
\* Temporal Index, the effective bounds nor the cache files.
C19_RetrievalReadOnly ==
    [][(result'.op \in {"len", "get"} /\ dir_changes' = dir_changes)
       => /\ store.state = "Ready"
          /\ store'.tars_index = store.tars_index
          /\ store'.index = store.index /\ store'.prefixes = store.prefixes
          /\ store'.dates = store.dates /\ store'.dates_set = store.dates_set
          /\ store'.date_start = store.date_start /\ store'.date_end = store.date_end
          /\ store' = store
          /\ tar_files_index' = tar_files_index
          /\ dates_index' = dates_index]_vars

\* C19 happens: a get() that raised on a Ready store with both cache files written
C19_Witness ==
    /\ result.op = "get" /\ result.raised = "IndexError"
    /\ store.state = "Ready"
    /\ tar_files_index.exists /\ DOMAIN dates_index # {}

\* C17: cache persistence is atomic: whenever a process died while it wrote
\* tar_files_index or a date list, no cut-off file is left under the cache's own
\* path, so a later constructor finds no cache file or a whole one (and never
\* fails reading one).
C17_AtomicPersistence ==
    result.op = "init" =>
        /\ ~ (tar_files_index.exists /\ truncated.index)
        /\ \A name \in DOMAIN dates_index : name \notin truncated.dates
        /\ result.raised # "UnpicklingError"

\* C18: whatever the interleaving of the get() calls of several readers on one
\* Ready store, each call returns what it returns when run alone, and no two
\* calls in extraction use the same container handle.
C18_ConcurrentGetIsolated ==
    /\ \A r \in 1..MaxReaders :
          readers[r].pc = "done" =>
             readers[r].out = SDOMLlite_getitem(store, tars, readers[r].index)
    /\ \A r1, r2 \in 1..MaxReaders :
          (r1 # r2 /\ readers[r1].pc = "read" /\ readers[r2].pc = "read")
          => handle_of(r1) # handle_of(r2)

\* C18 happens: a reader got its sample while another reader, whose call began
\* before the first one's extraction ended, has a handle open at another member
C18_Witness ==
    \E r1, r2 \in 1..MaxReaders :
        /\ r1 # r2
        /\ readers[r1].pc = "done" /\ readers[r1].out.found
        /\ readers[r2].pc = "read"
        /\ readers[r2].date # readers[r1].date
        /\ handles[handle_of(r2)].open
        /\ handles[handle_of(r2)].tar = 2

\* the range found in the directory by the construction that gave the store
Discovered == find_date_range(store.prefixes)

\* the constructor got past the clamping of the bounds (lines 103-118)
Clamped == result.op = "init" /\ result.raised \in {"", "RuntimeError"}

\* C21 as stated: a requested bound inside the range found in the directory (a
\* date_start in [found start, found end), a date_end in (found start, found end])
\* is the effective bound, a requested bound outside of it gives way to the found
\* bound and nothing is raised, and found start <= date_start < date_end <=
\* found end whenever found start < found end.
C21_BoundsClampedToRange ==
    LET requested_start == as_datetime(result.config.date_start)
        requested_end   == as_datetime(result.config.date_end)
    IN  Clamped =>
        /\ result.config.date_start.kind # "none" =>
              IF Discovered.date_start <= requested_start
                 /\ requested_start < Discovered.date_end
              THEN store.date_start = requested_start
              ELSE store.date_start = Discovered.date_start
        /\ result.config.date_end.kind # "none" =>
              IF Discovered.date_start < requested_end
                 /\ requested_end <= Discovered.date_end
              THEN store.date_end = requested_end
              ELSE store.date_end = Discovered.date_end
        /\ Discovered.date_start < Discovered.date_end =>
              /\ Discovered.date_start <= store.date_start
              /\ store.date_start < store.date_end
              /\ store.date_end <= Discovered.date_end

\* C21 amended: a requested date_start in [found start, found end) and a
\* requested date_end in (effective date_start, found end] are the effective
\* bounds, any other requested bound gives way to the found bound and nothing is
\* raised, and found start <= date_start < date_end <= found end whenever
\* found start < found end.
C21_BoundsClampedInOrder ==
    LET requested_start == as_datetime(result.config.date_start)
        requested_end   == as_datetime(result.config.date_end)
    IN  Clamped =>
        /\ Discovered.raised = ""
        /\ result.config.date_start.kind = "none" =>
              store.date_start = Discovered.date_start
        /\ result.config.date_end.kind = "none" => store.date_end = Discovered.date_end
        /\ result.config.date_start.kind # "none" =>
              IF Discovered.date_start <= requested_start
                 /\ requested_start < Discovered.date_end
              THEN store.date_start = requested_start
              ELSE store.date_start = Discovered.date_start
        /\ result.config.date_end.kind # "none" =>
              IF store.date_start < requested_end /\ requested_end <= Discovered.date_end
              THEN store.date_end = requested_end
              ELSE store.date_end = Discovered.date_end
        /\ Discovered.date_start < Discovered.date_end =>
              /\ Discovered.date_start <= store.date_start
              /\ store.date_start < store.date_end
              /\ store.date_end <= Discovered.date_end

\* C21 happens: both requested bounds lie in the found range, the end before the
\* start; the start was adopted and the end gave way to the found end
C21_Witness ==
    LET requested_start == as_datetime(result.config.date_start)
        requested_end   == as_datetime(result.config.date_end)
    IN  /\ Clamped
        /\ result.config.date_start.kind # "none" /\ result.config.date_end.kind # "none"
        /\ Discovered.date_start < requested_end /\ requested_end < requested_start
        /\ requested_start < Discovered.date_end
        /\ store.date_start = requested_start
        /\ store.date_end = Discovered.date_end

\* the timestamps of the prefixes of the Sample Index that parse as YYYY/MM/DD/HHMM
ParsableDates ==
    {prefix_to_date(store.prefixes[k]) :
        k \in {j \in 1..Len(store.prefixes) : Parsable(store.prefixes[j])}}

\* C22: a construction with no requested bounds over a Sample Index holding a
\* parsable prefix takes the earliest and the latest timestamp among the
\* parsable prefixes as date_start and date_end, whatever the order the members
\* were scanned in and whatever prefixes do not parse.
C22_DefaultRangeEarliestLatest ==
    (result.op = "init" /\ DefaultBounds /\ ParsableDates # {}) =>
        /\ result.raised \notin {"ValueError", "IndexError"}
        /\ \A t \in ParsableDates : store.date_start <= t /\ t <= store.date_end
        /\ store.date_start \in ParsableDates
        /\ store.date_end \in ParsableDates

\* the containers of dir that hold a member called name
Holders(dir, name) ==
    {p \in DOMAIN dir :
        dir[p].exists /\ \E k \in 1..Len(dir[p].members) : dir[p].members[k].name = name}

\* index is what a scan of dir's containers in sorted path order builds: the names
\* of all members, each once, in the order they are first met, each located in
\* the last container that holds it
ScannedInOrder(index, dir) ==
    /\ \A p \in DOMAIN dir : dir[p].exists =>
          \A k \in 1..Len(dir[p].members) :
             \E i \in 1..Len(index) : index[i].name = dir[p].members[k].name
    /\ \A i \in 1..Len(index) :
          /\ Holders(dir, index[i].name) # {}
          /\ \A p \in Holders(dir, index[i].name) : p <= index[i].tar
          /\ index[i].tar \in Holders(dir, index[i].name)
          /\ dir[index[i].tar].members[index[i].info].name = index[i].name
    /\ \A i, j \in 1..Len(index) :
          i < j =>
             /\ index[i].name # index[j].name
             /\ \E p \in Holders(dir, index[i].name) :
                   \A q \in Holders(dir, index[j].name) : p <= q

\* C23: a construction in a directory with a container and a file tar_files_index
\* takes the pickled index as it is, scans nothing and leaves the file alone,
\* whatever containers the directory holds now; without the file it scans the
\* containers in sorted path order and writes the index it built to the file.
C23_TrustTheCache ==
    [][(result'.op = "init" /\ dir_changes' = dir_changes /\ tar_files(tars) # <<>>)
       => IF tar_files_index.exists
          THEN /\ result'.index_loaded
               /\ store'.tars_index = tar_files_index.index
               /\ tar_files_index' = tar_files_index
          ELSE /\ ~ result'.index_loaded
               /\ ScannedInOrder(store'.tars_index, tars)
               /\ tar_files_index' = [exists |-> TRUE, index |-> store'.tars_index]]_vars

\* C23 happens: a construction took the index from tar_files_index although the
\* containers are no longer the ones it was built from
C23_Witness ==
    /\ result.op = "init" /\ result.index_loaded
    /\ tar_files(tars) # <<>>
    /\ index_origin # tars
    /\ store.tars_index = tar_files_index.index
    /\ ~ ScannedInOrder(store.tars_index, tars)

\* the member names that two of the containers hold
Collisions == {n \in MemberNames : Cardinality(Holders(tars, n)) >= 2}

\* C24: when the construction that scanned the containers met a member name in
\* two of them, it surfaced a warning (a message other than its progress texts),
\* recorded the location in the container scanned last in sorted path order, and
\* went on to persist the index.
C24_CollisionFlagged ==
    (result.op = "init" /\ ~ result.index_loaded /\ tar_files(tars) # <<>>
     /\ Collisions # {}) =>
        /\ \E k \in 1..Len(result.printed) :
              result.printed[k] \notin {"Loading tar files index from cache",
                                        "Indexing tar files",
                                        "Saving tar files index to cache"}
        /\ \A n \in Collisions : \E i \in 1..Len(store.tars_index) :
              /\ store.tars_index[i].name = n
              /\ \A p \in Holders(tars, n) : p <= store.tars_index[i].tar
        /\ tar_files_index.exists

\* the member the WebDataset read for the postfix of its latest get
WebRead(postfix) ==
    TarRandomAccess_getitem(web.tars_index, tars, <<web.out.prefix>> \o postfix)

\* C29: a WebDataset made with a decode_func of the caller's decodes every member
\* of a retrieved sample with that function, and with the built-in .npy decoder
\* only when decode_func is None.
C29_DecodeFuncHonoured ==
    /\ (web.out.op = "get" /\ web.out.raised = "" /\ web.out.found) =>
          \A postfix \in DOMAIN web.out.data :
             web.out.data[postfix] =
                decode_func(web.decode_func, WebRead(postfix),
                            <<web.out.prefix>> \o postfix).data
    /\ (web.out.op = "get" /\ web.decode_func # "None"
        /\ web.out.index.kind \in {"str", "int"}) =>
          web.out.raised # "ValueError"

\* the member names the WebDataset was built from, in the Member Index's order
WebNames == file_names(web.tars_index)

\* the names holding a '.', that is, made of a prefix and a postfix
Dotted == {k \in 1..Len(WebNames) : Len(WebNames[k]) >= 2}

\* the place of the first name of WebNames that begins with prefix
FirstSeen(prefix) ==
    CHOOSE k \in Dotted :
        /\ Head(WebNames[k]) = prefix
        /\ \A j \in Dotted : Head(WebNames[j]) = prefix => k <= j

\* C25: in a WebDataset that was built, every member name holding a '.' is split
\* at its first '.' and its postfix stands (once) in its prefix's entry; names
\* without '.' give nothing; self.prefixes holds each prefix once, in the order
\* they were first met; its elements are the keys of the mapping; and
\* len(WebDataset) is the number of distinct prefixes.
C25_SampleIndexConstruction ==
    web.state = "Built" =>
        /\ \A k \in Dotted :
              /\ Head(WebNames[k]) \in DOMAIN web.index
              /\ Cardinality({i \in 1..Len(web.index[Head(WebNames[k])]) :
                     web.index[Head(WebNames[k])][i] = Tail(WebNames[k])}) = 1
        /\ \A prefix \in DOMAIN web.index :
              \A i \in 1..Len(web.index[prefix]) :
                 \E k \in Dotted : WebNames[k] = <<prefix>> \o web.index[prefix][i]
        /\ \A i, j \in 1..Len(web.prefixes) :
              i < j => /\ web.prefixes[i] # web.prefixes[j]
                       /\ FirstSeen(web.prefixes[i]) < FirstSeen(web.prefixes[j])
        /\ {web.prefixes[i] : i \in 1..Len(web.prefixes)} = DOMAIN web.index
        /\ DOMAIN web.index = {Head(WebNames[k]) : k \in Dotted}
        /\ WebDataset_len(web.index) = Cardinality({Head(WebNames[k]) : k \in Dotted})
        /\ WebDataset_len(web.index) = Len(web.prefixes)

\* C25 happens: a WebDataset built from names of which one holds no '.', two
\* share a prefix, and the prefixes were not met in ascending order
C25_Witness ==
    /\ web.state = "Built"
    /\ \E k \in 1..Len(WebNames) : k \notin Dotted
    /\ \E prefix \in DOMAIN web.index : Len(web.index[prefix]) >= 2
    /\ Len(web.prefixes) >= 3
    /\ \E i \in 1..Len(web.prefixes) - 1 :
          prefix_to_date(web.prefixes[i]) > prefix_to_date(web.prefixes[i + 1])

\* the name of the date list file of the store's configuration
StoreName ==
    dates_cache(store.channels, store.date_start, store.date_end, store.date_exclusions)

\* the store's date list was computed by this code: by its own constructor, or
\* by the constructor that wrote the file it was loaded from
OwnDates == StoreName \in DOMAIN dates_origin

\* C26: on a store whose date list this code computed, the Temporal Index holds
\* no timestamp covered by an exclusion window and no get() ends in the 'Should
\* not happen' failure; and a get() for a timestamp that is in the index although
\* a window covers it raises that failure, returning neither data nor not-found.
C26_ExcludedNeverReachable ==
    /\ (store.state = "Ready" /\ OwnDates) =>
          /\ \A t \in store.dates_set : ~ excluded(t, store.date_exclusions)
          /\ result.op = "get" => result.raised # "RuntimeError"
    /\ (result.op = "get" /\ GetResolved /\ result.date \in store.dates_set
        /\ excluded(result.date, store.date_exclusions)) =>
          /\ result.raised = "RuntimeError"
          /\ ~ result.found /\ result.planes = <<>>

\* C26 happens: the store was built from a date list someone else wrote, which
\* holds a timestamp inside the exclusion window, and get() for it failed hard
C26_Witness ==
    /\ store.state = "Ready" /\ ~ OwnDates
    /\ result.op = "get" /\ result.raised = "RuntimeError"
    /\ result.date \in store.dates_set
    /\ excluded(result.date, store.date_exclusions)

\* what reading the .npy member of channel number c under the prefix of
\* timestamp t gives
ChannelRead(t, c) ==
    TarRandomAccess_getitem(store.tars_index, tars,
                            <<date_to_prefix(t), store.channels[c], "npy">>)

\* every requested channel has a .npy member under the prefix of t that can be
\* read, and these members have one shape
ChannelsDecodable(t) ==
    /\ \A c \in 1..Len(store.channels) :
          ChannelRead(t, c).found /\ ChannelRead(t, c).raised = ""
    /\ \A c, d \in 1..Len(store.channels) :
          ChannelRead(t, c).data.shape = ChannelRead(t, d).data.shape

\* C27: get() for a timestamp of the Temporal Index reads and decodes the
\* members of the requested channels only: it gives their arrays, in channel
\* order, whenever each requested channel has a decodable .npy member under the
\* timestamp's prefix, whatever else is stored under that prefix.
C27_RequestedChannelsOnly ==
    (result.op = "get" /\ GetResolved /\ result.date \in store.dates_set
     /\ ChannelsDecodable(result.date)) =>
        /\ result.raised = ""
        /\ result.found
        /\ result.planes = [c \in 1..Len(store.channels) |->
                               ChannelRead(result.date, c).data]

\* C28: a construction that fails because it found no dated sample leaves the
\* cache files as they were: no date list file of its configuration exists
\* afterwards, none was written by it, and it did not fail on a list it loaded,
\* so that a later construction of the same configuration computes the list anew.
C28_FailedConstructionWritesNothing ==
    (result.op = "init" /\ result.raised = "RuntimeError") =>
        /\ ~ result.dates_written
        /\ result.name \notin DOMAIN dates_index
        /\ ~ result.dates_loaded

\* the file list every node of the job makes from the job's arguments
JobFiles ==
    generate_file_names(<<>>, 0, download.date_end, download.cadence,
                        download.wavelengths)

\* the files node i took, as a set
Taken(i) == {download.nodes[i].files[k] : k \in 1..Len(download.nodes[i].files)}

\* C30: once the nodes 0..N-1 of a job with N >= 1 nodes and at least N files have
\* all run, the sets of files they took are pairwise disjoint and together are
\* the whole file list: every file is fetched by exactly one node.
C30_NodesPartitionFiles ==
    (/\ download.total_nodes >= 1
     /\ Len(JobFiles) >= download.total_nodes
     /\ \A i \in DOMAIN download.nodes : download.nodes[i].ran) =>
        /\ \A i, j \in DOMAIN download.nodes : i # j => Taken(i) \cap Taken(j) = {}
        /\ UNION {Taken(i) : i \in DOMAIN download.nodes}
              = {JobFiles[k] : k \in 1..Len(JobFiles)}

====
